---------------------------- MODULE Spec2Model ----------------------------
(***************************************************************************)
(* A model of the array-operations core of the uiua interpreter            *)
(* (src/src/algorithm/mod.rs): size validation, the shape-fill engine,     *)
(* max_shape and the switch dispatcher.                                    *)
(*                                                                         *)
(* Each component has its own specification (SpecSize, SpecFill, ...).     *)
(* The variables of the components a specification does not exercise stay  *)
(* at their idle values.                                                   *)
(***************************************************************************)
EXTENDS Integers, Sequences, FiniteSets, TLC

VARIABLES
    pc,             \* position of the routine under check: "start" | "done"
    \* ---- validate_size_impl
    target_arch,    \* "native" | "wasm32"  (cfg!(target_arch = "wasm32"))
    elem_size,      \* `size`: the element byte size (a machine word)
    sizes,          \* `sizes`: the dimension list (machine words)
    size_result,    \* Result<usize, SizeError>
    \* ---- fill_array_shape / fill_value_shapes
    ctx,            \* the FillContext: its implementation and its fill value
    expand_fixed,   \* the allow-fixed-expansion flag
    arr_in,         \* the array as it was passed to fill_array_shape
    arr,            \* `arr`: the array, mutated in place
    target,         \* `target`: the target shape
    fill_result,    \* Result<(), C::Error> of fill_array_shape
    \* ---- fill_value_shapes (with ctx and expand_fixed)
    a_in, b_in,     \* the two values as they were passed in
    val_a, val_b,   \* `a`, `b`: the two values, mutated in place
    a_err, b_err,   \* the failures of the two fill attempts, if any
    fvs_result,     \* Result<(), C::Error> of fill_value_shapes
    \* ---- max_shape
    ms_a, ms_b,     \* `a`, `b`: the two shapes
    new_shape,      \* max_shape(a, b)
    new_shape_swapped,  \* max_shape(b, a)
    new_shape_same, \* max_shape(a, a)
    \* ---- switch
    sw_count,       \* `count`: the number of branches
    sw_sig,         \* `sig`: the signature declared at the call site
    copy_condition_under,
    stack_in,       \* env.rt.stack when switch is entered (top last)
    function_stack_in,  \* env.rt.function_stack when switch is entered
    stack,          \* env.rt.stack
    function_stack, \* env.rt.function_stack
    under_stack,    \* the TempStack::Under stack
    calls,          \* the calls made so far: the callable and its arguments
    switch_result,  \* UiuaResult of switch
    \* ---- try_ (with stack_in, function_stack_in, stack, function_stack, calls)
    handler_func,   \* the function compiled from the handler operand
    tried_func,     \* the function compiled from the tried operand
    saved_errors,   \* what save_error_color has recorded
    handler_stack,  \* the stack as it was when the handler was called
    try_result,     \* UiuaResult of try_
    \* ---- fixed_rows
    args_in,        \* `args`: the argument values as they were passed in
    outputs_in,     \* `outputs`: the output count of the operation
    env_fill,       \* the fill value the environment holds, if any
    fixed_rows_result,  \* UiuaResult<FixedRowsData>
    \* ---- combinations / permutations / Array::choose
    n_in,           \* `n`: the row count of the array
    k_in,           \* `k`: the tuple size
    same_in,        \* `same`: tuples may repeat a row
    reverse_in,     \* `reverse`: the order of the tuples is reversed
    combinations_result,    \* UiuaResult<f64> of combinations
    permutations_result,    \* UiuaResult<f64> of permutations
    choose_result,  \* UiuaResult<Array<T>> of Array::choose
    \* ---- Array::permute (with k_in)
    shape_in,       \* the shape of the array whose rows are arranged
    permute_result, \* UiuaResult<Array<T>> of Array::permute, or its loop state
    \* ---- tuple2's generic arm (with k_in, shape_in)
    predicate_in,   \* `f`: the user function that is called on pairs of indices
    limit_exceeded, \* the execution limit of the environment has been passed
    checked_build,  \* the build checks integer overflow
    tuples_result,  \* UiuaResult<Array<T>> of inner, or its loop state
    \* ---- fill_array_shapes
    fas_a_in,       \* `a` as it was passed in
    fas_b_in,       \* `b` as it was passed in
    a_depth_in,     \* `a_depth` as it was passed in
    b_depth_in,     \* `b_depth` as it was passed in
    fill_shapes_result  \* the arrays as they are left, and the Result

vars_size == <<target_arch, elem_size, sizes, size_result>>
vars_fill == <<ctx, expand_fixed, arr_in, arr, target, fill_result>>
vars_fvs == <<a_in, b_in, val_a, val_b, a_err, b_err, fvs_result>>
vars_ms == <<ms_a, ms_b, new_shape, new_shape_swapped, new_shape_same>>
vars_switch == <<sw_count, sw_sig, copy_condition_under, stack_in, function_stack_in,
                 stack, function_stack, under_stack, calls, switch_result>>
vars_try == <<handler_func, tried_func, saved_errors, handler_stack, try_result>>
vars_rows == <<args_in, outputs_in, env_fill, fixed_rows_result>>
vars_comb == <<n_in, k_in, same_in, reverse_in, combinations_result,
               permutations_result, choose_result>>
vars_perm == <<shape_in, permute_result>>
vars_tuples == <<predicate_in, limit_exceeded, checked_build, tuples_result>>
vars_depth == <<fas_a_in, fas_b_in, a_depth_in, b_depth_in, fill_shapes_result>>
vars_rest == <<vars_perm, vars_tuples, vars_depth>>
vars == <<pc, vars_size, vars_fill, vars_fvs, vars_ms, vars_switch, vars_try,
          vars_rows, vars_comb, vars_rest>>

None == "None"

\* The values the variables of a component keep while another one runs
IdleSize ==
    /\ target_arch = None
    /\ elem_size = <<>>
    /\ sizes = <<>>
    /\ size_result = None

IdleFill ==
    /\ ctx = None
    /\ expand_fixed = FALSE
    /\ arr_in = None
    /\ arr = None
    /\ target = <<>>
    /\ fill_result = None

IdleFvs ==
    /\ a_in = None /\ b_in = None
    /\ val_a = None /\ val_b = None
    /\ a_err = None /\ b_err = None
    /\ fvs_result = None

IdleMs ==
    /\ ms_a = <<>> /\ ms_b = <<>>
    /\ new_shape = None /\ new_shape_swapped = None /\ new_shape_same = None

IdleSwitch ==
    /\ sw_count = 0
    /\ sw_sig = None
    /\ copy_condition_under = FALSE
    /\ stack_in = <<>> /\ function_stack_in = <<>>
    /\ stack = <<>> /\ function_stack = <<>>
    /\ under_stack = <<>>
    /\ calls = <<>>
    /\ switch_result = None

IdleTry ==
    /\ handler_func = None /\ tried_func = None
    /\ saved_errors = <<>>
    /\ handler_stack = None
    /\ try_result = None

IdleRows ==
    /\ args_in = <<>>
    /\ outputs_in = 0
    /\ env_fill = None
    /\ fixed_rows_result = None

IdleComb ==
    /\ n_in = 0 /\ k_in = 0
    /\ same_in = FALSE /\ reverse_in = FALSE
    /\ combinations_result = None
    /\ permutations_result = None
    /\ choose_result = None

IdlePerm ==
    /\ shape_in = <<>>
    /\ permute_result = None

IdleTuples ==
    /\ predicate_in = None
    /\ limit_exceeded = FALSE
    /\ checked_build = FALSE
    /\ tuples_result = None

IdleDepth ==
    /\ fas_a_in = None /\ fas_b_in = None
    /\ a_depth_in = 0 /\ b_depth_in = 0
    /\ fill_shapes_result = None

IdleRest == IdlePerm /\ IdleTuples /\ IdleDepth

(***************************************************************************)
(* Machine words.  usize is 64 bits wide on native targets and 32 bits on  *)
(* wasm32, which is wider than the model checker's integers, so a word is  *)
(* a little-endian sequence of base-2^8 limbs without leading zero limbs   *)
(* (<<>> is 0).  The operators below are exact natural-number arithmetic   *)
(* on that representation; overflowing_mul truncates to the word width.    *)
(***************************************************************************)
LimbBits == 2 * 4
Base == 2 ^ LimbBits

RECURSIVE Norm(_)
Norm(x) ==
    IF x = <<>> THEN <<>>
    ELSE IF x[Len(x)] = 0 THEN Norm(SubSeq(x, 1, Len(x) - 1))
    ELSE x

RECURSIVE BigOfNat(_)
BigOfNat(n) ==
    IF n = 0 THEN <<>> ELSE <<n % Base>> \o BigOfNat(n \div Base)

RECURSIVE AddCarry(_, _, _)
AddCarry(x, y, c) ==
    IF x = <<>> /\ y = <<>>
    THEN (IF c = 0 THEN <<>> ELSE <<c>>)
    ELSE LET dx == IF x = <<>> THEN 0 ELSE Head(x)
             dy == IF y = <<>> THEN 0 ELSE Head(y)
             s  == dx + dy + c
         IN  <<s % Base>> \o AddCarry(IF x = <<>> THEN <<>> ELSE Tail(x),
                                      IF y = <<>> THEN <<>> ELSE Tail(y),
                                      s \div Base)

BigAdd(x, y) == Norm(AddCarry(x, y, 0))

RECURSIVE MulLimb(_, _, _)
MulLimb(x, d, c) ==
    IF x = <<>>
    THEN (IF c = 0 THEN <<>> ELSE <<c>>)
    ELSE LET p == Head(x) * d + c
         IN  <<p % Base>> \o MulLimb(Tail(x), d, p \div Base)

RECURSIVE BigMul(_, _)
BigMul(x, y) ==
    IF y = <<>> \/ x = <<>> THEN <<>>
    ELSE BigAdd(Norm(MulLimb(x, Head(y), 0)),
                Norm(<<0>> \o BigMul(x, Tail(y))))

\* x > y on normalised words
RECURSIVE BigGreater(_, _)
BigGreater(x, y) ==
    IF Len(x) # Len(y) THEN Len(x) > Len(y)
    ELSE IF x = <<>> THEN FALSE
    ELSE IF x[Len(x)] # y[Len(y)] THEN x[Len(x)] > y[Len(y)]
    ELSE BigGreater(SubSeq(x, 1, Len(x) - 1), SubSeq(y, 1, Len(y) - 1))

\* 2^k
BigPow2(k) ==
    [i \in 1..(k \div LimbBits) |-> 0] \o <<2 ^ (k % LimbBits)>>

\* 2^k - 1, for k a multiple of the limb width
BigOnes(k) == [i \in 1..(k \div LimbBits) |-> Base - 1]

\* usize::BITS of the build
WordBits(arch) == IF arch = "wasm32" THEN 32 ELSE 64

\* Whether the natural number x fits a usize
FitsWord(x, arch) == Len(x) * LimbBits <= WordBits(arch)

\* usize::overflowing_mul: the wrapped product and whether it overflowed
overflowing_mul(x, y, arch) ==
    LET p == BigMul(x, y)
        n == WordBits(arch) \div LimbBits
    IN  IF Len(p) <= n
        THEN <<p, FALSE>>
        ELSE <<Norm(SubSeq(p, 1, n)), TRUE>>

(***************************************************************************)
(* validate_size_impl (mod.rs 85-111)                                      *)
(***************************************************************************)
\* A zero test that looks at the first dimension only
AnyZeroFirstOnly(ss) == ss # <<>> /\ ss[1] = <<>>

\* sizes.clone().into_iter().any(|s| s == 0)
AnyZero(ss) == \E i \in 1..Len(ss) : ss[i] = <<>>

\* A fold that keeps only the last multiplication's overflow flag
RECURSIVE FoldSizesLastFlag(_, _, _, _)
FoldSizesLastFlag(ss, acc, ovf, arch) ==
    IF ss = <<>> THEN <<acc, ovf>>
    ELSE LET m == overflowing_mul(acc, Head(ss), arch)
         IN  FoldSizesLastFlag(Tail(ss), m[1], m[2], arch)

\* sizes.into_iter().fold((1usize, false), |(acc, ovf), s| ...)
RECURSIVE FoldSizes(_, _, _, _)
FoldSizes(ss, acc, ovf, arch) ==
    IF ss = <<>> THEN <<acc, ovf>>
    ELSE LET m == overflowing_mul(acc, Head(ss), arch)
         IN  FoldSizes(Tail(ss), m[1], ovf \/ m[2], arch)

\* if cfg!(target_arch = "wasm32") { 256 } else { 4096 }
max_mega(arch) == IF arch = "wasm32" THEN 256 ELSE 4096

\* max_mega * 1024usize.pow(2)
MaxBytes(arch) == BigMul(BigOfNat(max_mega(arch)), BigOfNat(1024 * 1024))

SizeOk(n) == [tag |-> "Ok", val |-> n]
SizeOverflow == [tag |-> "Overflow", val |-> <<>>]
SizeTooLarge(n) == [tag |-> "TooLarge", val |-> n]

validate_size_impl(size, ss, arch) ==
    IF AnyZero(ss) THEN SizeOk(<<>>)
    ELSE LET f        == FoldSizes(ss, BigOfNat(1), FALSE, arch)
             elements == f[1]
             m        == overflowing_mul(elements, size, arch)
             bytes    == m[1]
             overflowed == f[2] \/ m[2]
         IN  IF overflowed THEN SizeOverflow
             ELSE IF BigGreater(bytes, MaxBytes(arch)) THEN SizeTooLarge(elements)
             ELSE SizeOk(elements)

\* ---- bounds and input sets of the size validator
MaxSizes == 3

Archs == {"native", "wasm32"}

\* log2 of the byte ceiling
CeilBits(arch) == IF arch = "wasm32" THEN 28 ELSE 32

\* size_of::<T>() of the element kinds (u8, char, f64, Complex), and 0
ElemSizes == {BigOfNat(0), BigOfNat(1), BigOfNat(4), BigOfNat(8), BigOfNat(16)}

\* Dimension sizes around the edges: small ones, the ceiling, the word limit
DimValues(arch) ==
    {BigOfNat(0), BigOfNat(1), BigOfNat(2), BigOfNat(3),
     BigPow2(CeilBits(arch) - 3), BigPow2(CeilBits(arch)),
     BigPow2(WordBits(arch) \div 2), BigPow2(WordBits(arch) - 2),
     BigOnes(WordBits(arch))}

SeqsUpTo(S, n) == UNION {[1..k -> S] : k \in 0..n}

InitSize ==
    /\ pc = "start"
    /\ IdleFill /\ IdleFvs /\ IdleMs /\ IdleSwitch /\ IdleTry /\ IdleRows /\ IdleComb /\ IdleRest
    /\ target_arch \in Archs
    /\ elem_size \in ElemSizes
    /\ sizes \in SeqsUpTo(DimValues(target_arch), MaxSizes)
    /\ size_result = None

ValidateSize ==
    /\ pc = "start"
    /\ size_result' = validate_size_impl(elem_size, sizes, target_arch)
    /\ pc' = "done"
    /\ UNCHANGED <<target_arch, elem_size, sizes>>
    /\ UNCHANGED <<vars_fill, vars_fvs, vars_ms, vars_switch, vars_try, vars_rows, vars_comb, vars_rest>>

NextSize == ValidateSize

SpecSize == InitSize /\ [][NextSize]_vars

\* ---- claims about validate_size_impl

\* The exact (unbounded) product of a dimension list
RECURSIVE BigProduct(_)
BigProduct(ss) ==
    IF ss = <<>> THEN BigOfNat(1) ELSE BigMul(Head(ss), BigProduct(Tail(ss)))

HasZeroDim(ss) == \E i \in DOMAIN ss : ss[i] = BigOfNat(0)

\* The product of the non-zero dimensions of a list
NonZeroDims(ss) == SelectSeq(ss, LAMBDA d : d # BigOfNat(0))

\* The byte ceiling named by the claim: 4096 MiB = 2^32, 256 MiB = 2^28
ClaimedCeiling(arch) == IF arch = "wasm32" THEN BigPow2(28) ELSE BigPow2(32)

\* C1: a dimension list that contains a 0 validates to Ok(0), whatever the
\* element size and the other dimensions are; it is never an error.
C1_ZeroDimIsOkZero ==
    (pc = "done" /\ HasZeroDim(sizes)) => size_result = SizeOk(BigOfNat(0))

\* C1 witness: a validated list with a 0 after dimensions whose product
\* does not fit the machine word
C1_Witness ==
    /\ pc = "done"
    /\ HasZeroDim(sizes)
    /\ sizes[1] # BigOfNat(0)
    /\ ~FitsWord(BigProduct(NonZeroDims(sizes)), target_arch)
    /\ size_result = SizeOk(BigOfNat(0))

\* What the claim C2 says the result is for a list without a zero
ClaimedSizeResult(size, ss, arch) ==
    LET product == BigProduct(ss)
        bytes   == BigMul(product, size)
    IN  IF ~FitsWord(product, arch) \/ ~FitsWord(bytes, arch) THEN SizeOverflow
        ELSE IF BigGreater(bytes, ClaimedCeiling(arch)) THEN SizeTooLarge(product)
        ELSE SizeOk(product)

\* C2: for a list with no zero entry the result is Overflow exactly when
\* the product of the dimensions, or that product times the element size,
\* does not fit the machine word; otherwise TooLarge(element count) exactly
\* when the byte total exceeds the ceiling; otherwise Ok(product).
C2_OverflowTooLargeOrProduct ==
    (pc = "done" /\ ~HasZeroDim(sizes)) =>
        size_result = ClaimedSizeResult(elem_size, sizes, target_arch)

\* C2 witness: a product that fits the word but whose byte total is over
\* the ceiling
C2_Witness ==
    /\ pc = "done"
    /\ ~HasZeroDim(sizes)
    /\ Len(sizes) >= 2
    /\ size_result.tag = "TooLarge"
    /\ size_result.val = BigProduct(sizes)

(***************************************************************************)
(* Shapes and arrays.  An array is its shape and its flat row-major data.  *)
(***************************************************************************)
RECURSIVE Prod(_)
Prod(s) == IF s = <<>> THEN 1 ELSE Head(s) * Prod(Tail(s))

Max(x, y) == IF x >= y THEN x ELSE y
Min(x, y) == IF x <= y THEN x ELSE y

\* A max_shape that aligns the two shapes at their leading ends
max_shape_leading(a, b) ==
    [j \in 1..Max(Len(a), Len(b)) |->
        Max(IF j <= Len(a) THEN a[j] ELSE 0, IF j <= Len(b) THEN b[j] ELSE 0)]

\* max_shape (mod.rs 43-59): position j = len - i - 1 takes a[a.len() - i - 1]
\* when a.len() > i, then the max with b[b.len() - i - 1] when b.len() > i
max_shape(a, b) ==
    LET shape_len == Max(Len(a), Len(b))
    IN  [j1 \in 1..shape_len |->
            LET i     == shape_len - j1
                from0 == 0
                fromA == IF Len(a) > i THEN a[Len(a) - i] ELSE from0
            IN  IF Len(b) > i THEN Max(fromA, b[Len(b) - i]) ELSE fromA]

\* shape_prefixes_match (mod.rs 222-224): a.iter().zip(b).all(|(a, b)| a == b)
shape_prefixes_match(a, b) ==
    \A i \in 1..Min(Len(a), Len(b)) : a[i] = b[i]

\* Array::row_count: the leading dimension, 1 for a scalar
row_count(x) == IF x.shape = <<>> THEN 1 ELSE x.shape[1]

\* Array::rank
rank(x) == Len(x.shape)

\* The multi-index (0-based) of flat position i (0-based) in `shape`
ShapeIndex(i, shape) ==
    [k \in 1..Len(shape) |->
        (i \div Prod(SubSeq(shape, k + 1, Len(shape)))) % shape[k]]

\* The flat position (0-based) of a multi-index that lies inside `shape`
RECURSIVE DataIndex(_, _)
DataIndex(idx, shape) ==
    IF idx = <<>> THEN 0
    ELSE Head(idx) * Prod(Tail(shape)) + DataIndex(Tail(idx), Tail(shape))

InShape(idx, shape) == \A k \in 1..Len(shape) : idx[k] < shape[k]

\* Array::fill_to_shape: pad the shape with leading 1s up to the rank of
\* `shape`; every cell of the new array whose index lies inside the old
\* shape keeps the old element, every other cell is the fill value
fill_to_shape(x, shape, fill) ==
    LET padded == [k \in 1..(Len(shape) - Len(x.shape)) |-> 1] \o x.shape
    IN  IF padded = shape
        THEN [x EXCEPT !.shape = padded]
        ELSE [x EXCEPT
                !.shape = shape,
                !.data = [n \in 1..Prod(shape) |->
                            LET idx == ShapeIndex(n - 1, shape)
                            IN  IF InShape(idx, padded)
                                THEN x.data[DataIndex(idx, padded) + 1]
                                ELSE fill]]

RECURSIVE Repeat(_, _)
Repeat(d, n) == IF n = 0 THEN <<>> ELSE d \o Repeat(d, n - 1)

\* Array::reshape_scalar(Ok(count)): `count` copies of the array become the
\* rows of the result
reshape_scalar(x, n) ==
    [x EXCEPT !.shape = <<n>> \o x.shape, !.data = Repeat(x.data, n)]

RECURSIVE ReshapeAll(_, _)
ReshapeAll(x, dims) ==
    IF dims = <<>> THEN x ELSE ReshapeAll(reshape_scalar(x, Head(dims)), Tail(dims))

Reverse(s) == [i \in 1..Len(s) |-> s[Len(s) - i + 1]]

(***************************************************************************)
(* The fill context                                                        *)
(***************************************************************************)
Ok(v) == [ok |-> TRUE, val |-> v]
Err(e) == [ok |-> FALSE, err |-> e]

NoFillSet == ". No fill is set."

\* FillContext::scalar_fill::<T>.  The unit context and the (&CodeSpan,
\* &Inputs) context never have a fill (mod.rs 192-198, 207-213); the
\* interpreter's has the fill value of the enclosing fill scope, which
\* serves the kinds it converts to.
scalar_fill(c, kind) ==
    IF c.impl = "Uiua" /\ kind \in c.fill.kinds
    THEN Ok(c.fill.value)
    ELSE Err(NoFillSet)

\* An error that is built but not passed through C::fill_error
ShapeMismatchUnmarked(c, s, t, e) ==
    [tag |-> "Err", is_fill |-> FALSE, left |-> s, right |-> t, detail |-> e]

\* ctx.error(format!("Shapes {} and {} do not match{e}", ...)) wrapped in
\* C::fill_error.  The unit context's error() panics (mod.rs 135-140); the
\* others build a UiuaError that fill_error marks as a fill error.
ShapeMismatch(c, s, t, e) ==
    IF c.impl = "Unit"
    THEN [tag |-> "Panic"]
    ELSE [tag |-> "Err", is_fill |-> TRUE, left |-> s, right |-> t, detail |-> e]

FillOk == [tag |-> "Ok"]

(***************************************************************************)
(* fill_array_shape (mod.rs 257-349)                                       *)
(***************************************************************************)
\* take_while(|&&dim| dim == 1).count()
RECURSIVE LeadingOnes(_)
LeadingOnes(s) ==
    IF s # <<>> /\ Head(s) = 1 THEN 1 + LeadingOnes(Tail(s)) ELSE 0

\* target.iter().cycle().take(n)
Cycle(t, n) == IF t = <<>> THEN <<>> ELSE [i \in 1..n |-> t[((i - 1) % Len(t)) + 1]]

\* mod.rs 271-289: the fixed-axis step
ExpandFixed(x, t) ==
    LET fixes   == Min(LeadingOnes(x.shape), Len(x.shape))
        tail    == SubSeq(x.shape, fixes + 1, Len(x.shape))
        t_under == SubSeq(t, fixes + 1, Len(t))
        same_under_fixes ==
            \A i \in 1..Min(Len(t_under), Len(tail)) :
                t_under[Len(t_under) - i + 1] = tail[Len(tail) - i + 1]
        drained == [x EXCEPT !.shape = tail]
    IN  IF ~same_under_fixes THEN x
        ELSE IF Len(t) >= fixes
             THEN ReshapeAll(drained, Reverse(SubSeq(t, 1, fixes)))
        ELSE IF tail = t
             THEN ReshapeAll(drained, Cycle(t, fixes))
        ELSE drained

\* An entry test that asks for equal shapes instead of matching prefixes
AlreadyMatchesExact(x, t, expand, c, kind) == x.shape = t

\* The test of mod.rs 267: the array is returned untouched
AlreadyMatches(x, t, expand, c, kind) == shape_prefixes_match(x.shape, t)

\* A row step that takes Ordering::Less for Ordering::Greater: no row is added
FillRowsSkipped(x, t, c, kind) ==
    LET target_row_count == IF t = <<>> THEN 1 ELSE t[1]
    IN  IF row_count(x) = target_row_count
        THEN [arr |-> x, fill_error |-> ""]
        ELSE [arr |-> x, fill_error |-> None]

\* mod.rs 294-311: fill in missing rows.  Yields the array and fill_error.
FillRows(x, t, c, kind) ==
    LET target_row_count == IF t = <<>> THEN 1 ELSE t[1]
        sf == scalar_fill(c, kind)
    IN  IF row_count(x) < target_row_count
        THEN IF sf.ok
             THEN [arr  |-> fill_to_shape(x, [x.shape EXCEPT ![1] = target_row_count],
                                          sf.val),
                   fill_error |-> None]
             ELSE [arr |-> x, fill_error |-> sf.err]
        ELSE IF row_count(x) > target_row_count
        THEN [arr |-> x, fill_error |-> None]
        ELSE [arr |-> x, fill_error |-> ""]

\* A dimension step that prepends an axis of length 1 instead of
\* target_row_count
FillDimsPrependOne(x, t, c, kind, fill_error) ==
    LET sf == scalar_fill(c, kind)
    IN  IF rank(x) < Len(t) /\ sf.ok
        THEN [arr |-> fill_to_shape(x, <<1>> \o x.shape, sf.val), fill_error |-> None]
        ELSE [arr |-> x, fill_error |-> IF sf.ok THEN fill_error ELSE sf.err]

\* mod.rs 312-336: fill in missing dimensions
FillDims(x, t, c, kind, fill_error) ==
    LET target_row_count == IF t = <<>> THEN 1 ELSE t[1]
        sf == scalar_fill(c, kind)
    IN  IF rank(x) < Len(t)
        THEN IF sf.ok
             THEN [arr |-> fill_to_shape(x, <<target_row_count>> \o x.shape, sf.val),
                   fill_error |-> None]
             ELSE [arr |-> x, fill_error |-> sf.err]
        ELSE IF rank(x) > Len(t)
        THEN [arr |-> x, fill_error |-> fill_error]
        ELSE LET target_shape == max_shape(x.shape, t)
             IN  IF x.shape # target_shape
                 THEN IF sf.ok
                      THEN [arr |-> fill_to_shape(x, target_shape, sf.val),
                            fill_error |-> None]
                      ELSE [arr |-> x, fill_error |-> sf.err]
                 ELSE [arr |-> x, fill_error |-> fill_error]

\* mod.rs 337-348
FillOutcomeAlwaysOk(x, t, c, fill_error) == [arr |-> x, res |-> FillOk]

FillOutcome(x, t, c, fill_error) ==
    LET e == IF ~shape_prefixes_match(x.shape, t) /\ fill_error = None
             THEN "" ELSE fill_error
    IN  IF e # None
        THEN [arr |-> x, res |-> ShapeMismatch(c, x.shape, t, e)]
        ELSE [arr |-> x, res |-> FillOk]

\* The whole routine: the array as it is left, and the result
fill_array_shape(x, t, expand, c, kind) ==
    IF AlreadyMatches(x, t, expand, c, kind)
    THEN [arr |-> x, res |-> FillOk]
    ELSE
    LET try_fixed == expand /\ row_count(x) = 1 /\ ~scalar_fill(c, kind).ok
        x1 == IF try_fixed THEN ExpandFixed(x, t) ELSE x
    IN  IF try_fixed /\ shape_prefixes_match(x1.shape, t)
        THEN [arr |-> x1, res |-> FillOk]
        ELSE IF x1.shape = <<>>
        THEN [arr |-> x1, res |-> [tag |-> "Panic"]]   \* target_shape[0] of a scalar
        ELSE
        LET r == FillRows(x1, t, c, kind)
        IN  IF shape_prefixes_match(r.arr.shape, t)
            THEN [arr |-> r.arr, res |-> FillOk]
            ELSE LET d == FillDims(r.arr, t, c, kind, r.fill_error)
                 IN  FillOutcome(d.arr, t, c, d.fill_error)

\* ---- bounds and input sets of the fill engine
MaxRank == 3
MaxDim == 2

MaxRankSum == 5

Shapes(r) == SeqsUpTo(0..MaxDim, r)

\* The pairs of shapes that are filled towards each other
ShapePairs ==
    {p \in Shapes(MaxRank) \X Shapes(MaxRank) : Len(p[1]) + Len(p[2]) <= MaxRankSum}

\* The array of a given shape whose elements are 1, 2, ... in row-major
\* order, so that every original element is told apart from the fill value
ArrayOf(kind, shape) ==
    [kind |-> kind, shape |-> shape, data |-> [n \in 1..Prod(shape) |-> n]]

FillValue == 0

\* The interpreter without and with a fill value, and the unit context.
\* The (&CodeSpan, &Inputs) context behaves as the interpreter without fill.
NoFill == [kinds |-> {}, value |-> FillValue]
NoFillCtx == [impl |-> "Uiua", fill |-> NoFill]
UnitCtx == [impl |-> "Unit", fill |-> NoFill]
FillCtx(kinds) == [impl |-> "Uiua", fill |-> [kinds |-> kinds, value |-> FillValue]]

InitFill ==
    /\ pc = "start"
    /\ IdleSize /\ IdleFvs /\ IdleMs /\ IdleSwitch /\ IdleTry /\ IdleRows /\ IdleComb /\ IdleRest
    /\ ctx \in {NoFillCtx, UnitCtx, FillCtx({"Num"})}
    /\ expand_fixed \in BOOLEAN
    /\ \E p \in ShapePairs :
          /\ arr_in = ArrayOf("Num", p[1])
          /\ target = p[2]
    /\ arr = arr_in
    /\ fill_result = None

FillArrayShape ==
    /\ pc = "start"
    /\ LET r == fill_array_shape(arr, target, expand_fixed, ctx, arr.kind)
       IN  /\ arr' = r.arr
           /\ fill_result' = r.res
    /\ pc' = "done"
    /\ UNCHANGED <<ctx, expand_fixed, arr_in, target>>
    /\ UNCHANGED <<vars_size, vars_fvs, vars_ms, vars_switch, vars_try, vars_rows, vars_comb, vars_rest>>

NextFill == FillArrayShape

SpecFill == InitFill /\ [][NextFill]_vars

\* ---- claims about fill_array_shape

\* Dimension-by-dimension equality over the shorter of the two lengths
PrefixMatch(s, t) ==
    LET m == IF Len(s) <= Len(t) THEN Len(s) ELSE Len(t)
    IN  SubSeq(s, 1, m) = SubSeq(t, 1, m)

FillAvailable == scalar_fill(ctx, "Num").ok

\* Row i (0-based) of an array: its shape and its elements
RowAt(x, i) ==
    LET row_shape == Tail(x.shape)
        n == Prod(row_shape)
    IN  [shape |-> row_shape, data |-> SubSeq(x.data, i * n + 1, (i + 1) * n)]

AllFill(d) == \A n \in DOMAIN d : d[n] = FillValue

\* Every cell of `new` whose index lies inside `old` (aligned at the trailing
\* axes, `old` being one row of the missing leading axes) holds old's
\* element; every other cell holds the fill value
KeptOrFill(old, new) ==
    LET padded == [k \in 1..(Len(new.shape) - Len(old.shape)) |-> 1] \o old.shape
    IN  /\ Len(new.data) = Prod(new.shape)
        /\ \A n \in 1..Len(new.data) :
              LET idx == ShapeIndex(n - 1, new.shape)
              IN  IF InShape(idx, padded)
                  THEN new.data[n] = old.data[DataIndex(idx, padded) + 1]
                  ELSE new.data[n] = FillValue

\* C3: if the array's shape already prefix-matches the target, fill_shape
\* returns success and leaves shape and data unchanged, whatever the fill
\* context and the allow_fixed_expansion flag are.
C3_MatchingPrefixIsNoOp ==
    (pc = "done" /\ PrefixMatch(arr_in.shape, target)) =>
        (fill_result = FillOk /\ arr = arr_in)

\* C3 witness: a matching one-row array of higher rank than the target,
\* with fixed expansion allowed and no fill
C3_Witness ==
    /\ pc = "done"
    /\ PrefixMatch(arr_in.shape, target)
    /\ expand_fixed /\ ~FillAvailable
    /\ arr_in.shape # <<>> /\ arr_in.shape[1] = 1
    /\ target # <<>> /\ Len(target) < Len(arr_in.shape)
    /\ fill_result = FillOk

\* The result C4 describes: the first dimension is the target's, the
\* original rows are at the front and every added row is fill
RowsCompleted ==
    /\ arr.shape # <<>> /\ arr.shape[1] = target[1]
    /\ \A i \in 0..(row_count(arr_in) - 1) : RowAt(arr, i) = RowAt(arr_in, i)
    /\ \A i \in row_count(arr_in)..(target[1] - 1) : AllFill(RowAt(arr, i).data)

\* C4 as stated (for an array that has a first dimension): fewer rows than
\* the target's leading dimension and a scalar fill available give
\* RowsCompleted.
C4_Original ==
    (/\ pc = "done"
     /\ arr_in.shape # <<>>
     /\ target # <<>> /\ row_count(arr_in) < target[1]
     /\ FillAvailable)
    => RowsCompleted

\* C4 as amended: for an array (of rank >= 1) whose trailing dimensions
\* prefix-match the target's trailing dimensions, fewer rows than the
\* target's leading dimension and a scalar fill available give success, the
\* shape grown in its first dimension only, the original rows at the front
\* and every added row equal to the fill value.
C4_RowCompletion ==
    (/\ pc = "done"
     /\ target # <<>> /\ row_count(arr_in) < target[1]
     /\ FillAvailable
     /\ arr_in.shape # <<>>
     /\ PrefixMatch(Tail(arr_in.shape), Tail(target)))
    => (/\ fill_result = FillOk
        /\ arr.shape = <<target[1]>> \o Tail(arr_in.shape)
        /\ RowsCompleted)

\* C4 witness: rows of more than one element are kept and rows are added
C4_Witness ==
    /\ pc = "done"
    /\ FillAvailable
    /\ Len(arr_in.shape) = 2 /\ arr_in.shape[1] = 1 /\ arr_in.shape[2] = 2
    /\ Len(target) = 2 /\ target[1] = 2 /\ target[2] = 2
    /\ arr.shape = <<2, 2>> /\ arr.data = <<1, 2, FillValue, FillValue>>

\* C5 as stated: lower rank, no prefix match and a scalar fill give the
\* original shape preceded by the target's leading dimension.
C5_Original ==
    (/\ pc = "done"
     /\ Len(arr_in.shape) < Len(target)
     /\ ~PrefixMatch(arr_in.shape, target)
     /\ FillAvailable)
    => (/\ arr.shape = <<target[1]>> \o arr_in.shape
        /\ KeptOrFill(arr_in, arr))

\* The shape row completion leaves: the first dimension raised to the
\* target's leading dimension when the array had fewer rows
AfterRowCompletion(s, t) ==
    IF s[1] < t[1] THEN <<t[1]>> \o Tail(s) ELSE s

\* C5 as amended: with lower rank, no prefix match and a scalar fill, the
\* array is left with the shape row completion gave it (the original shape,
\* its first dimension raised to the target's leading dimension when the
\* array had fewer rows), preceded by one new leading dimension equal to the
\* target's leading dimension unless row completion alone made the shape
\* prefix-match; the added cells hold the fill value.
C5_RankCompletion ==
    (/\ pc = "done"
     /\ Len(arr_in.shape) < Len(target)
     /\ ~PrefixMatch(arr_in.shape, target)
     /\ FillAvailable)
    => LET grown == AfterRowCompletion(arr_in.shape, target)
       IN  /\ arr.shape = IF PrefixMatch(grown, target)
                          THEN grown
                          ELSE <<target[1]>> \o grown
           /\ KeptOrFill(arr_in, arr)
           /\ (row_count(arr_in) >= target[1]
                 => arr.shape = <<target[1]>> \o arr_in.shape)

\* C5 witness: a new leading dimension in front of the unchanged shape
C5_Witness ==
    /\ pc = "done"
    /\ FillAvailable
    /\ Len(arr_in.shape) = 2 /\ Len(target) = 3
    /\ ~PrefixMatch(arr_in.shape, target)
    /\ Prod(arr_in.shape) > 1
    /\ arr.shape = <<target[1]>> \o arr_in.shape
    /\ target[1] > 1
    /\ fill_result = FillOk

\* C6 as stated: a returned failure is marked fill-class and names the
\* array's shape as it was passed in and the target shape.
C6_Original ==
    (pc = "done" /\ fill_result.tag = "Err") =>
        (/\ fill_result.is_fill
         /\ fill_result.left = arr_in.shape
         /\ fill_result.right = target)

\* C6 as amended: a returned failure is marked fill-class and names the
\* array's shape as fill_shape leaves it and the target shape; that shape is
\* the one passed in when no scalar fill is available and
\* allow_fixed_expansion is false.
C6_FailureNamesShapes ==
    (pc = "done" /\ fill_result.tag = "Err") =>
        (/\ fill_result.is_fill
         /\ fill_result.left = arr.shape
         /\ fill_result.right = target
         /\ ~PrefixMatch(arr_in.shape, target)
         /\ ((~FillAvailable /\ ~expand_fixed) =>
                (arr = arr_in /\ fill_result.left = arr_in.shape)))

\* C6 witness: mismatched shapes and no fill value
C6_Witness ==
    /\ pc = "done"
    /\ ~FillAvailable /\ ~expand_fixed
    /\ fill_result.tag = "Err"
    /\ fill_result.detail = NoFillSet
    /\ fill_result.left = arr_in.shape
    /\ Len(arr_in.shape) = 2

(***************************************************************************)
(* fill_value_shape and fill_value_shapes (mod.rs 226-255, 351-376)        *)
(***************************************************************************)
\* Array<u8>::convert::<f64>: the same numbers as an array of floats
convert(x) == [x EXCEPT !.kind = "Num"]

\* op_bytes_retry_fill (mod.rs 570-580): on_bytes and on_nums are the
\* outcomes of the two closures; a fill failure on the bytes is retried on
\* the numbers
op_bytes_retry_fill(on_bytes, on_nums) ==
    IF on_bytes.res.tag = "Err" /\ on_bytes.res.is_fill THEN on_nums ELSE on_bytes

\* mod.rs 236-248: the byte arm assigns `*val` only when the retry succeeds
ByteArm(val, r) ==
    IF r.res.tag = "Ok" THEN r ELSE [arr |-> val, res |-> r.res]

\* fill_value_shape: the value as it is left, and the result.  The arms
\* other than the byte arm fill in place.
fill_value_shape(val, t, expand, c) ==
    IF val.kind = "Byte"
    THEN ByteArm(val, op_bytes_retry_fill(
                          fill_array_shape(val, t, expand, c, "Byte"),
                          fill_array_shape(convert(val), t, expand, c, "Num")))
    ELSE fill_array_shape(val, t, expand, c, val.kind)

\* a.shape().starts_with(&[1])
starts_with_1(s) == s # <<>> /\ s[1] = 1

NoErr == [tag |-> "None"]

\* The error of a fill attempt: Result::err()
err(r) == IF r.tag = "Err" THEN r ELSE NoErr

\* An outcome whose exemption for a leading 1 ignores expand_fixed
FvsOutcomeAlwaysExempt(ra, rb, expand, c) ==
    [a |-> ra.arr, b |-> rb.arr, a_err |-> err(ra.res), b_err |-> err(rb.res),
     res |-> IF \/ shape_prefixes_match(ra.arr.shape, rb.arr.shape)
                \/ starts_with_1(ra.arr.shape) \/ starts_with_1(rb.arr.shape)
             THEN FillOk
             ELSE IF ra.res.tag = "Err" THEN ra.res
             ELSE IF rb.res.tag = "Err" THEN rb.res
             ELSE ShapeMismatch(c, ra.arr.shape, rb.arr.shape, "")]

\* mod.rs 362-375: the outcome after the two attempts ra and rb
FvsOutcome(ra, rb, expand, c) ==
    [a |-> ra.arr, b |-> rb.arr, a_err |-> err(ra.res), b_err |-> err(rb.res),
     res |-> IF \/ shape_prefixes_match(ra.arr.shape, rb.arr.shape)
                \/ (~expand /\ (\/ starts_with_1(ra.arr.shape)
                                \/ starts_with_1(rb.arr.shape)))
             THEN FillOk
             ELSE IF ra.res.tag = "Err" THEN ra.res
             ELSE IF rb.res.tag = "Err" THEN rb.res
             ELSE ShapeMismatch(c, ra.arr.shape, rb.arr.shape, "")]

\* mod.rs 361: the second attempt fills b towards the shape a was left with.
\* A panic of either attempt ends the call.
FvsSecondAttempt(ra, rb, expand, c) ==
    IF rb.res.tag = "Panic"
    THEN [a |-> ra.arr, b |-> rb.arr, a_err |-> err(ra.res), b_err |-> NoErr,
          res |-> rb.res]
    ELSE FvsOutcome(ra, rb, expand, c)

\* mod.rs 360: the first attempt fills a towards b's shape
FvsFirstAttempt(ra, vb, expand, c) ==
    IF ra.res.tag = "Panic"
    THEN [a |-> ra.arr, b |-> vb, a_err |-> NoErr, b_err |-> NoErr, res |-> ra.res]
    ELSE FvsSecondAttempt(ra, fill_value_shape(vb, ra.arr.shape, expand, c), expand, c)

\* fill_value_shapes: both values as they are left, the two recorded
\* failures and the result
fill_value_shapes(va, vb, expand, c) ==
    FvsFirstAttempt(fill_value_shape(va, vb.shape, expand, c), vb, expand, c)

\* The element kinds of the two values.  Value::Complex, Value::Char and
\* Value::Box take the same arm of fill_value_shape as Value::Num;
\* Value::Byte has the retrying arm.
ValueKinds == {"Num", "Byte"}

\* The contexts: no fill; a fill that serves numbers only; a byte fill,
\* which serves bytes and numbers; the unit context
ValueCtxs == {NoFillCtx, FillCtx({"Num"}), FillCtx({"Num", "Byte"}), UnitCtx}

\* The shapes of the two values
ValueShapePairs == {p \in ShapePairs : Len(p[1]) + Len(p[2]) < MaxRankSum}

InitFvs ==
    /\ pc = "start"
    /\ IdleSize /\ IdleMs /\ IdleSwitch /\ IdleTry /\ IdleRows /\ IdleComb /\ IdleRest
    /\ arr_in = None /\ arr = None /\ target = <<>> /\ fill_result = None
    /\ ctx \in ValueCtxs
    /\ expand_fixed \in BOOLEAN
    /\ \E p \in ValueShapePairs, ka \in ValueKinds, kb \in ValueKinds :
          /\ a_in = ArrayOf(ka, p[1])
          /\ b_in = ArrayOf(kb, p[2])
    /\ val_a = a_in /\ val_b = b_in
    /\ a_err = NoErr /\ b_err = NoErr
    /\ fvs_result = None

FillValueShapes ==
    /\ pc = "start"
    /\ LET r == fill_value_shapes(val_a, val_b, expand_fixed, ctx)
       IN  /\ val_a' = r.a /\ val_b' = r.b
           /\ a_err' = r.a_err /\ b_err' = r.b_err
           /\ fvs_result' = r.res
    /\ pc' = "done"
    /\ UNCHANGED <<ctx, expand_fixed, a_in, b_in>>
    /\ UNCHANGED <<arr_in, arr, target, fill_result>>
    /\ UNCHANGED <<vars_size, vars_ms, vars_switch, vars_try, vars_rows, vars_comb, vars_rest>>

NextFvs == FillValueShapes

SpecFvs == InitFvs /\ [][NextFvs]_vars

\* ---- claims about fill_value_shapes

StartsWithOne(s) == Len(s) >= 1 /\ s[1] = 1

\* The error the claim names: the first recorded fill failure, else a
\* generic mismatch of the two shapes
FirstFailureOrGeneric ==
    IF a_err # NoErr THEN a_err
    ELSE IF b_err # NoErr THEN b_err
    ELSE [tag |-> "Err", is_fill |-> TRUE, left |-> val_a.shape, right |-> val_b.shape,
          detail |-> ""]

MaxShapeRank == 2
MaxShapeDim == 5

MaxShapeInputs == SeqsUpTo(0..MaxShapeDim, MaxShapeRank)

InitMaxShape ==
    /\ pc = "start"
    /\ IdleSize /\ IdleFill /\ IdleFvs /\ IdleSwitch /\ IdleTry /\ IdleRows /\ IdleComb /\ IdleRest
    /\ ms_a \in MaxShapeInputs
    /\ ms_b \in MaxShapeInputs
    /\ new_shape = None /\ new_shape_swapped = None /\ new_shape_same = None

\* max_shape applied to the pair, to the swapped pair and to a with itself
MaxShape ==
    /\ pc = "start"
    /\ new_shape' = max_shape(ms_a, ms_b)
    /\ new_shape_swapped' = max_shape(ms_b, ms_a)
    /\ new_shape_same' = max_shape(ms_a, ms_a)
    /\ pc' = "done"
    /\ UNCHANGED <<ms_a, ms_b>>
    /\ UNCHANGED <<vars_size, vars_fill, vars_fvs, vars_switch, vars_try, vars_rows, vars_comb, vars_rest>>

NextMaxShape == MaxShape

SpecMaxShape == InitMaxShape /\ [][NextMaxShape]_vars

\* ---- claims about max_shape

\* The dimensions that a and b have at the i-th position from the end
\* (i = 0 is the last dimension)
DimsFromEnd(a, b, i) ==
    {a[k] : k \in {k \in 1..Len(a) : k = Len(a) - i}}
        \cup {b[k] : k \in {k \in 1..Len(b) : k = Len(b) - i}}

SetMax(S) == CHOOSE m \in S : \A x \in S : x <= m

\* C8: max_shape(a, b) has length max(len(a), len(b)); counting from the
\* end, its i-th dimension is the maximum of the i-th-from-end dimensions of
\* whichever of a and b has that position; max_shape([2,3],[4]) = [2,4] and
\* max_shape([],[5]) = [5]; max_shape is commutative and max_shape(a, a) = a.
C8_MaxShapeTrailingAligned ==
    pc = "done" =>
        /\ Len(new_shape) = IF Len(ms_a) >= Len(ms_b) THEN Len(ms_a) ELSE Len(ms_b)
        /\ \A i \in 0..(Len(new_shape) - 1) :
              new_shape[Len(new_shape) - i] = SetMax(DimsFromEnd(ms_a, ms_b, i))
        /\ ((ms_a = <<2, 3>> /\ ms_b = <<4>>) => new_shape = <<2, 4>>)
        /\ ((ms_a = <<>> /\ ms_b = <<5>>) => new_shape = <<5>>)
        /\ new_shape_swapped = new_shape
        /\ new_shape_same = ms_a

\* C8 witness: the shorter shape is aligned at the end of the longer one
C8_Witness ==
    /\ pc = "done"
    /\ ms_a = <<2, 3>> /\ ms_b = <<4>>
    /\ new_shape = <<2, 4>>
    /\ new_shape_swapped = <<2, 4>>

(***************************************************************************)
(* The interpreter state that switch works on (mod.rs 432-542).  An        *)
(* environment is a record of the value stack, the function stack, the     *)
(* under stack and the log of the calls made; the last element of a stack  *)
(* is its top.  A callable is a record of its identity, its signature and  *)
(* whether its execution fails.                                            *)
(***************************************************************************)
SwitchOk == [tag |-> "Ok"]
Panic == [tag |-> "Panic"]

\* env.error(format!(...)): the kind of message, the numbers and the shapes
\* that the message names
Error(kind, nums, shapes) ==
    [tag |-> "Err", kind |-> kind, nums |-> nums, shapes |-> shapes]

Fail(e, error) == [env |-> e, res |-> error]

Top(e) == e.stack[Len(e.stack)]
Popped(e) == [e EXCEPT !.stack = SubSeq(@, 1, Len(@) - 1)]

\* The values a callable leaves: told apart by the call and the output slot
OutputsOf(f, callno) ==
    [k \in 1..f.outputs |-> [shape |-> <<>>, data |-> <<100 * callno + k>>]]

\* Uiua::call: the callable is executed once; it takes its arguments off
\* the stack and leaves its outputs there, or fails
call(e, f) ==
    LET n      == Min(f.args, Len(e.stack))
        args   == SubSeq(e.stack, Len(e.stack) - n + 1, Len(e.stack))
        rest   == SubSeq(e.stack, 1, Len(e.stack) - n)
        callno == Len(e.calls) + 1
        logged == [e EXCEPT !.calls = Append(@, [f |-> f.id, args |-> args]),
                            !.stack = rest]
    IN  IF f.fails
        THEN Fail(logged, Error("CallFailed", <<f.id>>, <<>>))
        ELSE IF Len(e.stack) < f.args
        THEN Fail(logged, Error("CallStackEmpty", <<f.id>>, <<>>))
        ELSE [env |-> [logged EXCEPT !.stack = rest \o OutputsOf(f, callno)],
              res |-> SwitchOk]

\* Value::as_natural_array succeeds on arrays of natural numbers
is_natural_array(v) == \A k \in 1..Len(v.data) : v.data[k] >= 0

\* A bounds test that lets the index `count` through
out_of_bounds_strict(i, count) == i > count

\* mod.rs 446: |&&i| i >= count
out_of_bounds(i, count) == i >= count

\* mod.rs 446: selector.data.iter().find(..), as the position (from 1) of
\* the first element that is out of bounds, 0 when there is none
find_out_of_bounds(data, count) ==
    LET hits == {k \in 1..Len(data) : out_of_bounds(data[k], count)}
    IN  IF hits = {} THEN 0 ELSE CHOOSE k \in hits : \A m \in hits : k <= m

saturating_sub(x, y) == IF x >= y THEN x - y ELSE 0

\* A discard step that never reports a range that does not fit the stack
DiscardFitsAlways(discard_end, len) == TRUE

\* mod.rs 476: the discard range must end inside the stack
DiscardFits(discard_end, len) == ~(discard_end > len)

\* A scalar dispatch that calls the chosen function without discarding
SwitchScalarCallNoDiscard(sig, e, f) == call(e, f)

\* mod.rs 467-480: discard the unused arguments and call the chosen function.
\* stack.drain(discard_start..discard_end) runs with discard_end <= len.
SwitchScalarCall(sig, e, f) ==
    LET len           == Len(e.stack)
        discard_start == saturating_sub(len, sig.args)
        discard_end   == Max(saturating_sub(discard_start + sig.args + f.outputs,
                                            f.args + sig.outputs),
                             discard_start)
    IN  IF discard_start > len
        THEN Fail(e, Error("DiscardStackEmpty", <<>>, <<>>))
        ELSE IF ~DiscardFits(discard_end, len)
        THEN Fail(e, Error("DiscardStackEmpty", <<>>, <<>>))
        ELSE call([e EXCEPT !.stack = SubSeq(@, 1, discard_start)
                                        \o SubSeq(@, Min(discard_end, len) + 1, len)],
                  f)

\* The function stack without its last `count` functions
Drained(e, count) ==
    [e EXCEPT !.function_stack = SubSeq(@, 1, Len(@) - count)]

\* mod.rs 454-466: function_stack.drain(len - count..).nth(i).  The
\* subtraction len - count overflows when the function stack is shorter than
\* count: the build either panics there or drains from an index past the
\* end, which panics too.
SwitchScalar(count, sig, e, i) ==
    IF Len(e.function_stack) < count
    THEN Fail(e, Panic)
    ELSE IF i >= count
    THEN Fail(Drained(e, count), Error("FunctionStackEmpty", <<>>, <<>>))
    ELSE SwitchScalarCall(sig, Drained(e, count),
                          e.function_stack[Len(e.function_stack) - count + i + 1])

\* arg.shape().starts_with(selector.shape())
starts_with(s, prefix) ==
    Len(prefix) <= Len(s) /\ SubSeq(s, 1, Len(prefix)) = prefix

\* Array::into_row_shaped_slices: the consecutive blocks of the data that
\* have the row shape (the row shapes of the inputs have no zero dimension)
into_row_shaped_slices(x, row_shape) ==
    LET row_len == Prod(row_shape)
    IN  [k \in 1..(Len(x.data) \div row_len) |->
            [shape |-> row_shape,
             data  |-> SubSeq(x.data, (k - 1) * row_len + 1, k * row_len)]]

\* mod.rs 484-499: pop sig.args arguments, the top one first, and split each
\* into its blocks; args_rows ends in stack order (the top argument last)
RECURSIVE CollectArgs(_, _, _, _, _)
CollectArgs(e, selector, i, n, args_rows) ==
    IF i = n
    THEN [env |-> e, args_rows |-> Reverse(args_rows), res |-> SwitchOk]
    ELSE IF e.stack = <<>>
    THEN [env |-> e, args_rows |-> <<>>, res |-> Error("ArgStackEmpty", <<i + 1>>, <<>>)]
    ELSE LET arg == Top(e)
         IN  IF ~starts_with(arg.shape, selector.shape)
             THEN [env |-> Popped(e), args_rows |-> <<>>,
                   res |-> Error("SelectorIncompatible", <<i + 1>>,
                                 <<selector.shape, arg.shape>>)]
             ELSE CollectArgs(Popped(e), selector, i + 1, n,
                      Append(args_rows,
                             into_row_shaped_slices(arg,
                                 SubSeq(arg.shape, Len(selector.shape) + 1,
                                        Len(arg.shape)))))

\* A branch that is given its own arguments only
branch_args_own(f, sig) == f.args

\* mod.rs 506-510: the number of arguments a branch is given
branch_args(f, sig) ==
    IF f.outputs < sig.outputs
    THEN f.args + sig.outputs - f.outputs
    ELSE f.args

\* mod.rs 525-527: outputs[i].push(env.pop("switch output")?)
RECURSIVE PopOutputs(_, _, _, _)
PopOutputs(e, outputs, i, n) ==
    IF i > n
    THEN [env |-> e, outputs |-> outputs, res |-> SwitchOk]
    ELSE IF e.stack = <<>>
    THEN [env |-> e, outputs |-> outputs, res |-> Error("OutputStackEmpty", <<>>, <<>>)]
    ELSE PopOutputs(Popped(e), [outputs EXCEPT ![i] = Append(@, Top(e))], i + 1, n)

\* mod.rs 516-528: one call per selector element, in linear order.  Element
\* j takes block j of every argument and pushes those of the topmost `args`
\* arguments, the deepest first.
RECURSIVE SwitchEach(_, _, _, _, _, _, _)
SwitchEach(e, sig, functions, args_rows, data, j, outputs) ==
    IF j > Len(data)
    THEN [env |-> e, outputs |-> outputs, res |-> SwitchOk]
    ELSE IF data[j] >= Len(functions)
    THEN [env |-> e, outputs |-> outputs, res |-> Panic]
    ELSE LET f      == functions[data[j] + 1]
             n      == Len(args_rows)
             used   == Min(branch_args(f, sig), n)
             pushed == [p \in 1..used |-> args_rows[n - used + p][j]]
             c      == call([e EXCEPT !.stack = @ \o pushed], f)
         IN  IF c.res.tag # "Ok"
             THEN [env |-> c.env, outputs |-> outputs, res |-> c.res]
             ELSE LET po == PopOutputs(c.env, outputs, 1, sig.outputs)
                  IN  IF po.res.tag # "Ok"
                      THEN po
                      ELSE SwitchEach(po.env, sig, functions, args_rows, data, j + 1,
                                      po.outputs)

RECURSIVE Concat(_)
Concat(rows) == IF rows = <<>> THEN <<>> ELSE Head(rows).data \o Concat(Tail(rows))

\* Value::from_row_values without a fill value: rows of one shape become an
\* array with one more leading dimension, rows of different shapes fail
from_row_values(rows) ==
    IF rows = <<>>
    THEN [val |-> [shape |-> <<0>>, data |-> <<>>], res |-> SwitchOk]
    ELSE IF \A k \in 1..Len(rows) : rows[k].shape = rows[1].shape
    THEN [val |-> [shape |-> <<Len(rows)>> \o rows[1].shape, data |-> Concat(rows)],
          res |-> SwitchOk]
    ELSE [val |-> rows[1],
          res |-> Error("RowShapes", <<>>, <<rows[1].shape>>)]

\* mod.rs 530-536: the output slots are pushed last slot first; each is one
\* array of the selector's shape followed by the shape of its rows
RECURSIVE PushOutputs(_, _, _, _)
PushOutputs(e, selector, outputs, k) ==
    IF k = 0
    THEN [env |-> e, res |-> SwitchOk]
    ELSE LET v == from_row_values(outputs[k])
         IN  IF v.res.tag # "Ok"
             THEN [env |-> e, res |-> v.res]
             ELSE PushOutputs(
                      [e EXCEPT !.stack =
                          Append(@, [shape |-> selector.shape \o Tail(v.val.shape),
                                     data  |-> v.val.data])],
                      selector, outputs, k - 1)

\* mod.rs 529-536 after the loop of mod.rs 516-528
SwitchArrayOutputs(selector, se) ==
    IF se.res.tag # "Ok"
    THEN [env |-> se.env, res |-> se.res]
    ELSE PushOutputs(se.env, selector, se.outputs, Len(se.outputs))

\* mod.rs 501-528 after the arguments are collected (ca).  The subtraction
\* len - count overflows as in the scalar case.
SwitchArrayFunctions(count, sig, selector, ca) ==
    IF ca.res.tag # "Ok"
    THEN [env |-> ca.env, res |-> ca.res]
    ELSE IF Len(ca.env.function_stack) < count
    THEN Fail(ca.env, Panic)
    ELSE SwitchArrayOutputs(selector,
             SwitchEach(Drained(ca.env, count), sig,
                        SubSeq(ca.env.function_stack,
                               Len(ca.env.function_stack) - count + 1,
                               Len(ca.env.function_stack)),
                        ca.args_rows, selector.data, 1,
                        [k \in 1..sig.outputs |-> <<>>]))

\* mod.rs 482-537
SwitchArray(count, sig, e, selector) ==
    SwitchArrayFunctions(count, sig, selector,
                         CollectArgs(e, selector, 0, sig.args, <<>>))

\* A dispatch whose copied selector goes on the under stack whatever the
\* outcome of the branches
SwitchFinishAlways(copy, selector, r) ==
    IF copy
    THEN [env |-> [r.env EXCEPT !.under = Append(@, selector)], res |-> r.res]
    ELSE [env |-> r.env, res |-> r.res]

\* mod.rs 538-541: the copied selector goes on the under stack on success
SwitchFinish(copy, selector, r) ==
    IF r.res.tag = "Ok" /\ copy
    THEN [env |-> [r.env EXCEPT !.under = Append(@, selector)], res |-> r.res]
    ELSE [env |-> r.env, res |-> r.res]

\* mod.rs 445-537 with the selector popped
SwitchSelector(count, sig, copy, e, selector) ==
    IF ~is_natural_array(selector)
    THEN Fail(e, Error("NotNatural", <<>>, <<>>))
    ELSE IF find_out_of_bounds(selector.data, count) # 0
    THEN Fail(e, Error("OutOfBounds",
                       <<selector.data[find_out_of_bounds(selector.data, count)], count>>,
                       <<>>))
    ELSE SwitchFinish(copy, selector,
             IF selector.shape = <<>>
             THEN SwitchScalar(count, sig, e, selector.data[1])
             ELSE SwitchArray(count, sig, e, selector))

\* switch (mod.rs 432-542): the environment as it is left, and the result
switch(count, sig, copy, e) ==
    IF e.stack = <<>>
    THEN Fail(e, Error("SelectorStackEmpty", <<>>, <<>>))
    ELSE SwitchSelector(count, sig, copy, Popped(e), Top(e))

\* ---- bounds and input sets of switch
MaxCount == 2
MaxStack == 2

Signature(args, outputs) == [args |-> args, outputs |-> outputs]

\* The signatures declared at the call site
Signatures == {Signature(1, 1), Signature(2, 1), Signature(2, 2)}

\* An explicit signature that declares fewer outputs than any branch leaves:
\* the incorrect explicit signatures that the discard range of the scalar
\* dispatch is written for (mod.rs 472)
ExplicitSignatures == {Signature(1, 0)}

\* The branches: their signature and whether their execution fails
Function(args, outputs, fails) == [args |-> args, outputs |-> outputs, fails |-> fails]

Branches ==
    {Function(0, 1, FALSE), Function(1, 1, FALSE), Function(2, 1, FALSE),
     Function(1, 1, TRUE)}

\* Every function on the function stack is known by its position there
WithIds(fs) ==
    [k \in 1..Len(fs) |->
        [id |-> k, args |-> fs[k].args, outputs |-> fs[k].outputs,
         fails |-> fs[k].fails]]

\* The function stacks: a function pushed earlier below `count` branches,
\* and a stack that is one function short of `count`
FunctionStacks(count) ==
    {WithIds(<<Function(1, 1, FALSE)>> \o bs) : bs \in [1..count -> Branches]}
        \cup {WithIds([k \in 1..(count - 1) |-> Function(1, 1, FALSE)]) :
                 x \in IF count > 0 THEN {count} ELSE {}}

SelectorShapes == {<<>>, <<0>>, <<1>>, <<2>>, <<2, 1>>}

\* The selectors: natural arrays over 0..count (count itself is out of
\* bounds), two with different elements out of bounds, and a scalar that is
\* not a natural number
Selectors(count) ==
    UNION {{[shape |-> sh, data |-> d] : d \in [1..Prod(sh) -> 0..count]} :
              sh \in SelectorShapes}
        \cup {[shape |-> <<2>>, data |-> <<count + 1, count>>],
              [shape |-> <<2>>, data |-> <<count, count + 1>>],
              [shape |-> <<>>, data |-> <<-1>>]}

\* The arguments below a selector: an array with the selector's shape, one
\* with a longer shape that begins with it, and one of shape [3]
ArgShapes(selector) == {selector.shape, selector.shape \o <<2>>, <<3>>}

ArgStacks(selector) ==
    {[p \in 1..Len(shs) |->
        [shape |-> shs[p], data |-> [n \in 1..Prod(shs[p]) |-> 10 * p + n]]] :
        shs \in SeqsUpTo(ArgShapes(selector), MaxStack)}

InitSwitch ==
    /\ pc = "start"
    /\ IdleSize /\ IdleFill /\ IdleFvs /\ IdleMs /\ IdleTry /\ IdleRows /\ IdleComb /\ IdleRest
    /\ sw_count \in 0..MaxCount
    /\ sw_sig \in Signatures \cup ExplicitSignatures
    /\ copy_condition_under \in BOOLEAN
    /\ function_stack_in \in FunctionStacks(sw_count)
    /\ \/ stack_in = <<>> /\ sw_sig \in Signatures
       \/ \E selector \in Selectors(sw_count) :
             /\ sw_sig \in ExplicitSignatures => selector.shape = <<>>
             /\ \E args \in ArgStacks(selector) : stack_in = Append(args, selector)
    /\ stack = stack_in
    /\ function_stack = function_stack_in
    /\ under_stack = <<>>
    /\ calls = <<>>
    /\ switch_result = None

Switch ==
    /\ pc = "start"
    /\ LET r == switch(sw_count, sw_sig, copy_condition_under,
                       [stack |-> stack, function_stack |-> function_stack,
                        under |-> under_stack, calls |-> calls])
       IN  /\ stack' = r.env.stack
           /\ function_stack' = r.env.function_stack
           /\ under_stack' = r.env.under
           /\ calls' = r.env.calls
           /\ switch_result' = r.res
    /\ pc' = "done"
    /\ UNCHANGED <<sw_count, sw_sig, copy_condition_under, stack_in, function_stack_in>>
    /\ UNCHANGED <<vars_size, vars_fill, vars_fvs, vars_ms, vars_try, vars_rows, vars_comb, vars_rest>>

NextSwitch == Switch

SpecSwitch == InitSwitch /\ [][NextSwitch]_vars

\* ---- claims about switch

\* The selector that switch pops: the top of the stack it is entered with
SelectorIn == stack_in[Len(stack_in)]

NaturalSelector ==
    /\ stack_in # <<>>
    /\ \A k \in 1..Len(SelectorIn.data) : SelectorIn.data[k] >= 0

\* The positions of the selector elements that are not below branch_count
Offending == {k \in 1..Len(SelectorIn.data) : SelectorIn.data[k] >= sw_count}

\* C9: when any element of the (natural) selector is greater than or equal
\* to branch_count, switch returns an out-of-bounds error that names such an
\* element (the first one in linear order) and branch_count, and no branch
\* has been invoked.
C9_OutOfBoundsBeforeAnyCall ==
    (pc = "done" /\ NaturalSelector /\ Offending # {}) =>
        /\ switch_result.tag = "Err"
        /\ switch_result.kind = "OutOfBounds"
        /\ \E k \in Offending :
              /\ \A m \in Offending : k <= m
              /\ switch_result.nums = <<SelectorIn.data[k], sw_count>>
        /\ calls = <<>>

\* C9 witness: a selector equal to branch_count, with branches to choose from
C9_Witness ==
    /\ pc = "done"
    /\ sw_count = 2
    /\ stack_in # <<>>
    /\ SelectorIn = [shape |-> <<>>, data |-> <<2>>]
    /\ Len(function_stack_in) > sw_count
    /\ switch_result.tag = "Err"
    /\ switch_result.nums = <<2, 2>>

\* A rank-0 selector i < branch_count, with branch_count functions to choose
\* from
ScalarSelectorInBounds ==
    /\ NaturalSelector
    /\ SelectorIn.shape = <<>>
    /\ SelectorIn.data[1] < sw_count
    /\ Len(function_stack_in) >= sw_count

\* The i-th (from 0, in push order) of the last branch_count functions
ChosenBranch ==
    function_stack_in[Len(function_stack_in) - sw_count + SelectorIn.data[1] + 1]

\* All branch_count functions are gone, the earlier ones are as they were
BranchesRemoved ==
    function_stack = SubSeq(function_stack_in, 1, Len(function_stack_in) - sw_count)

\* The number of declared arguments that the stack below the selector lacks
MissingArgs ==
    IF sw_sig.args > Len(stack_in) - 1 THEN sw_sig.args - (Len(stack_in) - 1) ELSE 0

\* C10 as stated: with a rank-0 selector i < branch_count, switch calls
\* exactly one callable, exactly once, the i-th of the last branch_count
\* functions on the function stack; those branch_count functions are removed
\* and the functions pushed earlier are left untouched.
C10_Original ==
    (pc = "done" /\ ScalarSelectorInBounds) =>
        /\ Len(calls) = 1
        /\ calls[1].f = ChosenBranch.id
        /\ BranchesRemoved

\* C10 as amended: with a rank-0 selector i < branch_count, the branch_count
\* functions are removed and the earlier ones left untouched; the i-th of
\* them is called, exactly once and alone, provided its outputs plus the
\* declared arguments missing from the stack do not exceed its arguments
\* plus the declared outputs; otherwise switch fails on the discard range
\* and calls nothing.
C10_ScalarDispatch ==
    (pc = "done" /\ ScalarSelectorInBounds) =>
        /\ BranchesRemoved
        /\ IF ChosenBranch.outputs + MissingArgs <= ChosenBranch.args + sw_sig.outputs
           THEN /\ Len(calls) = 1
                /\ calls[1].f = ChosenBranch.id
           ELSE /\ calls = <<>>
                /\ switch_result = Error("DiscardStackEmpty", <<>>, <<>>)

\* C10 witness: selector 1 of two branches pushed above an earlier function
C10_Witness ==
    /\ pc = "done"
    /\ ScalarSelectorInBounds
    /\ sw_count = 2
    /\ SelectorIn.data = <<1>>
    /\ Len(function_stack_in) = 3
    /\ Len(calls) = 1
    /\ calls[1].f = 3
    /\ function_stack = <<function_stack_in[1]>>
    /\ switch_result = SwitchOk

\* ---- the discard range of the scalar dispatch

\* The stack below the selector
Below == SubSeq(stack_in, 1, Len(stack_in) - 1)

\* The stack as the chosen function found it: what it left there, without
\* its outputs, and its arguments above
StackAtCall ==
    SubSeq(stack, 1, Len(stack) - (IF switch_result.tag = "Ok"
                                   THEN ChosenBranch.outputs ELSE 0))
        \o calls[1].args

\* The stack s without the values at the positions from..to-1, counted from 0
Without(s, from, to) == SubSeq(s, 1, from) \o SubSeq(s, to + 1, Len(s))

\* max(0, sig.args + f.outputs - f.args - sig.outputs)
ExcessArgs ==
    Max(0, sw_sig.args + ChosenBranch.outputs - ChosenBranch.args - sw_sig.outputs)

\* Values are drained from a range inside the stack, or switch fails and the
\* stack is as it was
DrainedInside ==
    IF calls # <<>>
    THEN \E from, to \in 0..Len(Below) :
            from <= to /\ StackAtCall = Without(Below, from, to)
    ELSE switch_result.tag = "Err" /\ stack = Below

\* The deepest ExcessArgs of the top sig.args values are gone
DeepestDiscarded ==
    (IF calls # <<>> THEN StackAtCall ELSE stack)
        = Without(Below, Len(Below) - sw_sig.args, Len(Below) - sw_sig.args + ExcessArgs)

\* C26 as stated: in the scalar dispatch values are drained only from a
\* range discard_start <= discard_end <= stack height (otherwise switch fails
\* and drains nothing); when the stack holds at least sig.args values the
\* number discarded is max(0, sig.args + f.outputs - f.args - sig.outputs)
\* and the discarded values are the deepest of the top sig.args values.
C26_Original ==
    (pc = "done" /\ ScalarSelectorInBounds) =>
        /\ DrainedInside
        /\ Len(Below) >= sw_sig.args => DeepestDiscarded

\* C26 as amended: the same, the number and the place of the discarded
\* values being stated for the case that switch does not fail on the discard
\* range; it fails on it, with enough values on the stack, exactly when the
\* excess is larger than sig.args.
C26_DiscardRange ==
    (pc = "done" /\ ScalarSelectorInBounds) =>
        /\ DrainedInside
        /\ Len(Below) >= sw_sig.args =>
              IF ExcessArgs <= sw_sig.args
              THEN calls # <<>> /\ DeepestDiscarded
              ELSE /\ calls = <<>>
                   /\ switch_result = Error("DiscardStackEmpty", <<>>, <<>>)
                   /\ stack = Below

\* C26 witness: two declared arguments, a branch that takes one: the deeper
\* of the two values is discarded and the branch is called on the other
C26_Witness ==
    /\ pc = "done"
    /\ ScalarSelectorInBounds
    /\ sw_sig = Signature(2, 1)
    /\ ChosenBranch.args = 1 /\ ~ChosenBranch.fails
    /\ Len(Below) = 2
    /\ ExcessArgs = 1
    /\ calls[1].args = <<Below[2]>>
    /\ Len(stack) = 1
    /\ switch_result = SwitchOk

\* ---- claims about switch with an array selector

\* A selector of rank >= 1 whose elements are all below branch_count, with
\* branch_count functions to choose from
ArraySelectorInBounds ==
    /\ NaturalSelector
    /\ SelectorIn.shape # <<>>
    /\ Offending = {}
    /\ Len(function_stack_in) >= sw_count

\* The branch that selector element j (from 1, in linear order) selects
BranchAt(j) ==
    function_stack_in[Len(function_stack_in) - sw_count + SelectorIn.data[j] + 1]

\* The q-th argument from the top of the stack below the selector
ArgFromTop(q) == stack_in[Len(stack_in) - q]

\* The declared arguments are on the stack and begin with the selector's shape
ArgsPresent ==
    /\ Len(stack_in) - 1 >= sw_sig.args
    /\ \A q \in 1..sw_sig.args :
          /\ Len(ArgFromTop(q).shape) >= Len(SelectorIn.shape)
          /\ \A d \in 1..Len(SelectorIn.shape) :
                ArgFromTop(q).shape[d] = SelectorIn.shape[d]

\* Block j (from 1, row-major over the selector's shape) of an argument
BlockOf(v, j) ==
    LET trailing == SubSeq(v.shape, Len(SelectorIn.shape) + 1, Len(v.shape))
        len      == Prod(trailing)
    IN  [shape |-> trailing, data |-> SubSeq(v.data, (j - 1) * len + 1, j * len)]

\* The arguments a branch uses: its own, and one more for every declared
\* output it does not produce itself
EffectiveArgs(f) ==
    IF f.outputs < sw_sig.outputs THEN f.args + (sw_sig.outputs - f.outputs) ELSE f.args

\* Every selected branch runs to completion on declared arguments only
BranchesSucceed ==
    \A j \in 1..Len(SelectorIn.data) :
        /\ ~BranchAt(j).fails
        /\ EffectiveArgs(BranchAt(j)) <= sw_sig.args

\* What call j leaves in output slot i (slot 1 is the top of the stack): an
\* output of the branch, or the block of an argument the branch passes on
SlotValue(i, j) ==
    LET f == BranchAt(j)
    IN  IF i <= f.outputs
        THEN OutputsOf(f, j)[f.outputs - i + 1]
        ELSE BlockOf(ArgFromTop(f.args + (i - f.outputs)), j)

\* The rows collected in one output slot have one shape
CommonTrailingShape ==
    \A i \in 1..sw_sig.outputs : \A j \in 1..Len(SelectorIn.data) :
        SlotValue(i, j).shape = SlotValue(i, 1).shape

RECURSIVE SlotData(_, _)
SlotData(i, j) ==
    IF j > Len(SelectorIn.data) THEN <<>>
    ELSE SlotValue(i, j).data \o SlotData(i, j + 1)

\* Output slot i reassembled: the selector's shape, then the rows' shape
ReassembledSlot(i) ==
    [shape |-> SelectorIn.shape \o
                   (IF SelectorIn.data = <<>> THEN <<>> ELSE SlotValue(i, 1).shape),
     data  |-> SlotData(i, 1)]

\* C11: with a selector of rank >= 1 (declared arguments present, branches
\* that succeed, rows of a common shape) switch succeeds and calls branch
\* s_j exactly once for every selector element j, in increasing j; call j
\* is given block j of the topmost arguments the branch takes, in their
\* stack order; every output slot is pushed back, in the original output
\* order, as one array of the selector's shape followed by the common
\* trailing shape whose block j is what call j left in that slot.
C11_ArrayDispatch ==
    (/\ pc = "done"
     /\ ArraySelectorInBounds
     /\ ArgsPresent
     /\ BranchesSucceed
     /\ CommonTrailingShape) =>
        /\ switch_result = SwitchOk
        /\ Len(calls) = Len(SelectorIn.data)
        /\ \A j \in 1..Len(SelectorIn.data) :
              /\ calls[j].f = BranchAt(j).id
              /\ calls[j].args =
                    [p \in 1..BranchAt(j).args |->
                        BlockOf(ArgFromTop(BranchAt(j).args - p + 1), j)]
        /\ stack = SubSeq(stack_in, 1, Len(stack_in) - 1 - sw_sig.args)
                     \o [p \in 1..sw_sig.outputs |->
                            ReassembledSlot(sw_sig.outputs - p + 1)]

\* C11 witness: a rank-2 selector picks two different branches, each of
\* which takes one of two arguments and passes the other on
C11_Witness ==
    /\ pc = "done"
    /\ ArraySelectorInBounds /\ ArgsPresent /\ BranchesSucceed /\ CommonTrailingShape
    /\ SelectorIn = [shape |-> <<2, 1>>, data |-> <<1, 0>>]
    /\ sw_sig = Signature(2, 2)
    /\ ArgFromTop(1).shape = <<2, 1, 2>>
    /\ Len(calls) = 2
    /\ calls[1].f = 3 /\ calls[2].f = 2
    /\ calls[1].args = <<[shape |-> <<2>>, data |-> <<21, 22>>]>>
    /\ calls[2].args = <<[shape |-> <<2>>, data |-> <<23, 24>>]>>
    /\ Len(stack) = 2
    /\ stack[2] = [shape |-> <<2, 1>>, data |-> <<101, 201>>]

\* ---- claims about a failing branch

\* The selector elements (from 1) whose branch fails when it is executed
FailingElements == {j \in 1..Len(SelectorIn.data) : BranchAt(j).fails}

FirstFailing == CHOOSE j \in FailingElements : \A m \in FailingElements : j <= m

\* The values that lie below the declared arguments
Beneath == SubSeq(stack_in, 1, Len(stack_in) - 1 - sw_sig.args)

\* Array selector: the first failing branch is reached, every call before it
\* having run to completion on declared arguments
ArrayFailureReached ==
    /\ ArraySelectorInBounds
    /\ ArgsPresent
    /\ FailingElements # {}
    /\ \A j \in 1..(FirstFailing - 1) : EffectiveArgs(BranchAt(j)) <= sw_sig.args

\* Scalar selector: the chosen branch fails and the discard range fits
ScalarFailureReached ==
    /\ ScalarSelectorInBounds
    /\ ChosenBranch.fails
    /\ ChosenBranch.outputs + MissingArgs <= ChosenBranch.args + sw_sig.outputs

\* C12: switch does not catch a branch's failure.  When a branch call fails
\* (scalar or array selector) switch returns that failure; the failing call
\* is the last call made, so no branch is invoked for a later selector
\* element; nothing but the values beneath the arguments and blocks of the
\* arguments is on the stack, so no output array is pushed; and the copied
\* selector is not on the under stack.
C12_BranchFailurePropagates ==
    /\ (pc = "done" /\ ArrayFailureReached) =>
          /\ switch_result = Error("CallFailed", <<BranchAt(FirstFailing).id>>, <<>>)
          /\ Len(calls) = FirstFailing
          /\ \A j \in 1..FirstFailing : calls[j].f = BranchAt(j).id
          /\ Len(stack) >= Len(Beneath)
          /\ SubSeq(stack, 1, Len(Beneath)) = Beneath
          /\ \A p \in (Len(Beneath) + 1)..Len(stack) :
                \E q \in 1..sw_sig.args : stack[p] = BlockOf(ArgFromTop(q), FirstFailing)
          /\ under_stack = <<>>
    /\ (pc = "done" /\ ScalarFailureReached) =>
          /\ switch_result = Error("CallFailed", <<ChosenBranch.id>>, <<>>)
          /\ Len(calls) = 1
          /\ calls[1].f = ChosenBranch.id
          /\ under_stack = <<>>
    /\ (pc = "done" /\ switch_result.tag = "Err"
            /\ switch_result.kind \in {"CallFailed", "CallStackEmpty"}) =>
          /\ calls # <<>>
          /\ calls[Len(calls)].f = switch_result.nums[1]
          /\ under_stack = <<>>

\* C12 witness: the first of two selector elements picks a failing branch
\* while the selector is to be copied under
C12_Witness ==
    /\ pc = "done"
    /\ ArrayFailureReached
    /\ copy_condition_under
    /\ Len(SelectorIn.data) = 2
    /\ FirstFailing = 1
    /\ ~BranchAt(2).fails
    /\ Len(calls) = 1
    /\ switch_result.tag = "Err"
    /\ switch_result.kind = "CallFailed"
    /\ under_stack = <<>>

(***************************************************************************)
(* try_ (mod.rs 544-566) behind the instructions the compiler emits for a  *)
(* try (compile/modifier.rs 969-979): PushFunc(handler), PushFunc(tried),  *)
(* Prim(Try).  The environment has two more fields here: what              *)
(* save_error_color has recorded and the stack the handler was called on.  *)
(***************************************************************************)
\* UiuaError::value: the value an error carries
ErrorValue(error) == [shape |-> <<>>, data |-> <<1000 + error.nums[1]>>]

\* Uiua::call_clean_stack: the call, whose failure leaves a clean stack.
\* Whether the clean stack still holds the arguments of the call is not
\* fixed by the description of the guarantee: keeps_args covers both.
call_clean_stack(e, f, keeps_args) ==
    IF call(e, f).res.tag = "Ok"
    THEN call(e, f)
    ELSE [env |-> [call(e, f).env EXCEPT
                      !.stack = IF keeps_args
                                THEN e.stack
                                ELSE SubSeq(e.stack, 1,
                                            saturating_sub(Len(e.stack), f.args))],
          res |-> call(e, f).res]

\* Uiua::clone_stack_top(n): the top n values, in stack order
clone_stack_top(e, n) == SubSeq(e.stack, Len(e.stack) - n + 1, Len(e.stack))

\* A preparation that pushes the error value whatever the two signatures are
TryPushedAlwaysValue(f, handler, error, backup) == <<ErrorValue(error)>> \o backup

\* mod.rs 556-562: what is pushed for the handler
TryPushed(f, handler, error, backup) ==
    (IF handler.args > f.args THEN <<ErrorValue(error)>> ELSE <<>>) \o backup

\* A recovery that calls the handler whatever the outcome of the tried call
TryRecoverAlways(c, f, handler, backup) ==
    call([c.env EXCEPT
             !.stack = @ \o backup,
             !.handler_stack = c.env.stack \o backup],
         handler)

\* mod.rs 555-565: the outcome c of the tried call decides
TryRecover(c, f, handler, backup) ==
    IF c.res.tag = "Ok"
    THEN c
    ELSE call([c.env EXCEPT
                  !.stack = @ \o TryPushed(f, handler, c.res, backup),
                  !.saved = IF handler.args > f.args THEN Append(@, c.res) ELSE @,
                  !.handler_stack = c.env.stack \o TryPushed(f, handler, c.res, backup)],
              handler)

\* A try that reports the short stack and leaves its values where they are
TryCallKeepsStack(e, f, handler, keeps_args) ==
    IF Len(e.stack) < f.args
    THEN Fail(e, Error("ArgStackEmpty", <<Len(e.stack) + 1>>, <<>>))
    ELSE TryRecover(call_clean_stack(e, f, keeps_args), f, handler,
                    clone_stack_top(e, Min(f.args, handler.args)))

\* mod.rs 549-565 with both functions popped
TryCall(e, f, handler, keeps_args) ==
    IF Len(e.stack) < f.args
    THEN Fail([e EXCEPT !.stack = <<>>],
              Error("ArgStackEmpty", <<Len(e.stack) + 1>>, <<>>))
    ELSE TryRecover(call_clean_stack(e, f, keeps_args), f, handler,
                    clone_stack_top(e, Min(f.args, handler.args)))

\* A try_ that takes the function pushed last for the handler
try_handler_first(e, keeps_args) ==
    IF Len(e.function_stack) < 2
    THEN Fail([e EXCEPT !.function_stack = <<>>],
              Error("FunctionStackEmpty", <<>>, <<>>))
    ELSE TryCall([e EXCEPT !.function_stack = SubSeq(@, 1, Len(@) - 2)],
                 e.function_stack[Len(e.function_stack) - 1],
                 e.function_stack[Len(e.function_stack)],
                 keeps_args)

\* try_ (mod.rs 544-566): f is popped first, the handler second
try_(e, keeps_args) ==
    IF Len(e.function_stack) < 2
    THEN Fail([e EXCEPT !.function_stack = <<>>],
              Error("FunctionStackEmpty", <<>>, <<>>))
    ELSE TryCall([e EXCEPT !.function_stack = SubSeq(@, 1, Len(@) - 2)],
                 e.function_stack[Len(e.function_stack)],
                 e.function_stack[Len(e.function_stack) - 1],
                 keeps_args)

\* ---- bounds and input sets of try_
MaxTryArgs == 2

\* The functions of a try: the handler may declare one argument more
TryFunctions(max_args) ==
    {Function(n, m, fails) : n \in 0..max_args, m \in 0..1, fails \in BOOLEAN}

\* The values on the stack: scalars told apart by their position
TryStacks ==
    {[p \in 1..n |-> [shape |-> <<>>, data |-> <<10 * p>>]] : n \in 0..MaxStack}

WithId(f, id) ==
    [id |-> id, args |-> f.args, outputs |-> f.outputs, fails |-> f.fails]

InitTry ==
    /\ pc = "start"
    /\ IdleSize /\ IdleFill /\ IdleFvs /\ IdleMs /\ IdleRows /\ IdleComb /\ IdleRest
    /\ sw_count = 0 /\ sw_sig = None /\ copy_condition_under = FALSE
    /\ under_stack = <<>> /\ switch_result = None
    /\ function_stack_in \in {<<>>, WithIds(<<Function(1, 1, FALSE)>>)}
    /\ stack_in \in TryStacks
    /\ \E h \in TryFunctions(MaxTryArgs + 1) :
          handler_func = WithId(h, Len(function_stack_in) + 1)
    /\ \E f \in TryFunctions(MaxTryArgs) :
          tried_func = WithId(f, Len(function_stack_in) + 2)
    /\ stack = stack_in
    /\ function_stack = function_stack_in
    /\ calls = <<>>
    /\ saved_errors = <<>>
    /\ handler_stack = None
    /\ try_result = None

\* Instr::PushFunc(handler_func)
PushHandlerFunc ==
    /\ pc = "start"
    /\ function_stack' = Append(function_stack, handler_func)
    /\ pc' = "handler_pushed"
    /\ UNCHANGED <<stack, calls, saved_errors, handler_stack, try_result>>
    /\ UNCHANGED <<handler_func, tried_func, stack_in, function_stack_in>>
    /\ UNCHANGED <<sw_count, sw_sig, copy_condition_under, under_stack, switch_result>>
    /\ UNCHANGED <<vars_size, vars_fill, vars_fvs, vars_ms, vars_rows, vars_comb, vars_rest>>

\* Instr::PushFunc(tried_func)
PushTriedFunc ==
    /\ pc = "handler_pushed"
    /\ function_stack' = Append(function_stack, tried_func)
    /\ pc' = "tried_pushed"
    /\ UNCHANGED <<stack, calls, saved_errors, handler_stack, try_result>>
    /\ UNCHANGED <<handler_func, tried_func, stack_in, function_stack_in>>
    /\ UNCHANGED <<sw_count, sw_sig, copy_condition_under, under_stack, switch_result>>
    /\ UNCHANGED <<vars_size, vars_fill, vars_fvs, vars_ms, vars_rows, vars_comb, vars_rest>>

\* Instr::Prim(Primitive::Try)
Try ==
    /\ pc = "tried_pushed"
    /\ \E keeps_args \in BOOLEAN :
          LET r == try_([stack |-> stack, function_stack |-> function_stack,
                         under |-> under_stack, calls |-> calls,
                         saved |-> saved_errors, handler_stack |-> handler_stack],
                        keeps_args)
          IN  /\ stack' = r.env.stack
              /\ function_stack' = r.env.function_stack
              /\ calls' = r.env.calls
              /\ saved_errors' = r.env.saved
              /\ handler_stack' = r.env.handler_stack
              /\ try_result' = r.res
    /\ pc' = "done"
    /\ UNCHANGED <<handler_func, tried_func, stack_in, function_stack_in>>
    /\ UNCHANGED <<sw_count, sw_sig, copy_condition_under, under_stack, switch_result>>
    /\ UNCHANGED <<vars_size, vars_fill, vars_fvs, vars_ms, vars_rows, vars_comb, vars_rest>>

NextTry == PushHandlerFunc \/ PushTriedFunc \/ Try

SpecTry == InitTry /\ [][NextTry]_vars

\* ---- claims about try_

\* The tried function is called: the stack holds its arguments
TriedIsCalled == Len(stack_in) >= tried_func.args

\* The number of calls of a function in the log
CallsOf(id) == Cardinality({j \in 1..Len(calls) : calls[j].f = id})

\* C13: try_ invokes the handler if and only if the call of the tried
\* function fails, and then exactly once; when the tried function succeeds
\* the handler is never invoked and try_ returns success with the tried
\* function's results on the stack.
C13_HandlerIffTriedFails ==
    pc = "done" =>
        /\ CallsOf(handler_func.id) =
              (IF TriedIsCalled /\ tried_func.fails THEN 1 ELSE 0)
        /\ CallsOf(tried_func.id) = (IF TriedIsCalled THEN 1 ELSE 0)
        /\ (TriedIsCalled /\ tried_func.fails) =>
              (calls[1].f = tried_func.id /\ calls[2].f = handler_func.id)
        /\ (TriedIsCalled /\ ~tried_func.fails) =>
              /\ try_result = SwitchOk
              /\ stack = SubSeq(stack_in, 1, Len(stack_in) - tried_func.args)
                           \o OutputsOf(tried_func, 1)

\* C13 witness: the tried function fails and the handler recovers
C13_Witness ==
    /\ pc = "done"
    /\ tried_func.fails /\ ~handler_func.fails
    /\ tried_func.args = 1 /\ handler_func.args = 1
    /\ Len(calls) = 2
    /\ try_result = SwitchOk

\* The top min(tried.args, handler.args) values as they were before the call
BackedUp ==
    SubSeq(stack_in,
           Len(stack_in) - (IF tried_func.args <= handler_func.args
                            THEN tried_func.args ELSE handler_func.args) + 1,
           Len(stack_in))

\* The failure of the tried call
TriedError == Error("CallFailed", <<tried_func.id>>, <<>>)

\* The stacks a failed clean-stack call may leave: the one it was made on,
\* or that one without the arguments of the call
CleanStacks ==
    {stack_in, SubSeq(stack_in, 1, Len(stack_in) - tried_func.args)}

\* C14: when the tried function fails, the handler is called on the clean
\* stack with, on top of it, the error's carried value if and only if the
\* handler declares strictly more arguments than the tried function, then
\* the backed-up values in their original order; the error is recorded
\* exactly in the case where its value is pushed.
C14_HandlerStack ==
    (pc = "done" /\ TriedIsCalled /\ tried_func.fails) =>
        /\ \E clean \in CleanStacks :
              handler_stack =
                  clean \o (IF handler_func.args > tried_func.args
                            THEN <<ErrorValue(TriedError)>> ELSE <<>>)
                        \o BackedUp
        /\ saved_errors = (IF handler_func.args > tried_func.args
                           THEN <<TriedError>> ELSE <<>>)

\* C14 witness: a handler with one argument more than the tried function
C14_Witness ==
    /\ pc = "done"
    /\ TriedIsCalled /\ tried_func.fails
    /\ tried_func.args = 2 /\ handler_func.args = 3
    /\ Len(stack_in) = 2
    /\ Len(BackedUp) = 2
    /\ saved_errors # <<>>
    /\ calls[2].args = <<ErrorValue(TriedError)>> \o stack_in

\* C15 as stated: of the two functions pushed for a try, the one pushed
\* last is taken as the handler and the one beneath it is the function that
\* is tried.
C15_Original ==
    (pc = "done" /\ TriedIsCalled) =>
        /\ calls[1].f = Len(function_stack_in) + 1
        /\ tried_func.fails => calls[2].f = Len(function_stack_in) + 2

\* C15 as amended: try_ pops the tried callable first and the handler
\* second: of the two functions pushed for a try, the one pushed last (the
\* function compiled from the tried operand) is the function that is tried,
\* and the one beneath it (compiled from the handler operand) is the
\* handler; the functions pushed earlier stay on the function stack.
C15_TriedPoppedFirst ==
    (pc = "done" /\ TriedIsCalled) =>
        /\ calls[1].f = Len(function_stack_in) + 2
        /\ calls[1].f = tried_func.id
        /\ tried_func.fails =>
              /\ calls[2].f = Len(function_stack_in) + 1
              /\ calls[2].f = handler_func.id
        /\ function_stack = function_stack_in

\* C15 witness: both functions are called, above a function pushed earlier
C15_Witness ==
    /\ pc = "done"
    /\ TriedIsCalled /\ tried_func.fails
    /\ Len(function_stack_in) = 1
    /\ Len(calls) = 2
    /\ calls[1].f = 3 /\ calls[2].f = 2
    /\ function_stack = function_stack_in

\* The stack holds fewer values than the tried function declares arguments
ShortStack == Len(stack_in) < tried_func.args

\* C30: when try_ is entered with fewer stack values than the tried function
\* declares arguments, the values that are there are popped and an error is
\* returned; neither the tried function nor the handler is called, and
\* nothing is recorded for a handler
C30_ShortStack ==
    (pc = "done" /\ ShortStack) =>
        /\ stack = <<>>
        /\ try_result.tag = "Err"
        /\ try_result.kind = "ArgStackEmpty"
        /\ calls = <<>>
        /\ saved_errors = <<>>
        /\ handler_stack = None
        /\ function_stack = function_stack_in

\* C30 witness: one value under a tried function of two arguments that would
\* fail, with a handler: the value is popped and nothing is called
C30_Witness ==
    /\ pc = "done"
    /\ Len(stack_in) = 1
    /\ tried_func.args = 2 /\ tried_func.fails
    /\ handler_func.args = 3
    /\ stack = <<>>
    /\ try_result.tag = "Err"
    /\ calls = <<>>


(***************************************************************************)
(* fixed_rows: the row alignment of the arguments of a row-wise operation. *)
(* A value is its shape, the kind of its elements and its persistent       *)
(* metadata, a set of labels.  The rows themselves are not looked at by    *)
(* fixed_rows, so a row sequence is the number of rows it yields.          *)
(***************************************************************************)

\* Value::length_is_fillable: the environment holds a fill value of the kind
\* of the elements; a scalar has no length to fill
length_is_fillable(v, fill) == rank(v) > 0 /\ fill = v.kind

\* Value::fill_length_to: rows of the fill value are appended until the value
\* has `len` rows; a value that has them already is left alone
fill_length_to(v, len) ==
    IF rank(v) = 0 \/ row_count(v) >= len THEN v
    ELSE [v EXCEPT !.shape = <<len>> \o Tail(v.shape)]

\* A row count check without the exemption of the one-row arguments
RowsMismatchAlways(x, y) == row_count(x) # row_count(y)

\* mod.rs 679-683: the row counts differ and neither is 1
RowsMismatch(x, y) ==
    /\ row_count(x) # row_count(y)
    /\ row_count(x) # 1
    /\ row_count(y) # 1

\* mod.rs 669-672: args[a] is filled to the row count of args[b]
FillFirst(args, a, b, fill) ==
    IF length_is_fillable(args[a], fill)
    THEN [args EXCEPT ![a] = fill_length_to(args[a], row_count(args[b]))]
    ELSE args

\* mod.rs 673-678: args[b] is filled to the row count of args[a]
FillSecond(args, a, b, fill) ==
    IF length_is_fillable(args[b], fill)
    THEN [args EXCEPT ![b] = fill_length_to(args[b], row_count(args[a]))]
    ELSE args

RECURSIVE EqualizeRows(_, _, _, _)

\* mod.rs 679-694: the check of the pair (a, b) after the fills
CheckPair(args, a, b, fill) ==
    IF RowsMismatch(args[a], args[b])
    THEN Error("DifferentRowCounts", <<a, b>>, <<args[a].shape, args[b].shape>>)
    ELSE EqualizeRows(args, a, b + 1, fill)

\* mod.rs 664-696: the loops over the pairs a < b (1-based here)
EqualizeRows(args, a, b, fill) ==
    IF a > Len(args) THEN [tag |-> "Ok", args |-> args]
    ELSE IF b > Len(args) THEN EqualizeRows(args, a + 1, a + 2, fill)
    ELSE CheckPair(FillSecond(FillFirst(args, a, b, fill), a, b, fill), a, b, fill)

\* mod.rs 700: outputs > 0 && args.iter().any(|v| v.row_count() == 0)
is_empty(args, outputs) ==
    outputs > 0 /\ \E i \in DOMAIN args : row_count(args[i]) = 0

\* Value::undo_fix: a leading axis of length 1 is removed
undo_fix(v) ==
    IF v.shape # <<>> /\ v.shape[1] = 1 THEN [v EXCEPT !.shape = Tail(v.shape)]
    ELSE v

\* A row sequence without the proxy row
FixedRowNoProxy(v, empty) ==
    IF row_count(v) = 1
    THEN [tag |-> "Err", value |-> undo_fix(v)]
    ELSE [tag |-> "Ok", len |-> row_count(v), proxy |-> FALSE]

\* mod.rs 706-716: Err(v) is a fixed (repeated) value, Ok(rows) a sequence of
\* rows, one longer when the proxy row is chained to it
FixedRow(v, empty) ==
    IF row_count(v) = 1
    THEN [tag |-> "Err", value |-> undo_fix(v)]
    ELSE [tag |-> "Ok", len |-> row_count(v) + (IF empty THEN 1 ELSE 0),
          proxy |-> empty]

\* mod.rs 712-713, 719-721: row_count.max(v.row_count()) over the arguments
\* that are not fixed, 1 when there is none
RECURSIVE MaxRowCount(_, _, _)
MaxRowCount(args, acc, all_1) ==
    IF args = <<>> THEN (IF all_1 THEN 1 ELSE acc)
    ELSE IF row_count(Head(args)) = 1 THEN MaxRowCount(Tail(args), acc, all_1)
    ELSE MaxRowCount(Tail(args), Max(acc, row_count(Head(args))), FALSE)

\* A final row count that leaves the proxy row out
FinalRowCountNoProxy(args, outputs) == MaxRowCount(args, 0, TRUE)

\* mod.rs 723: row_count + is_empty as usize
FinalRowCount(args, outputs) ==
    MaxRowCount(args, 0, TRUE) + (IF is_empty(args, outputs) THEN 1 ELSE 0)

\* A collection of the metadata of every argument
RECURSIVE PerMetaOfAll(_)
PerMetaOfAll(args) ==
    IF args = <<>> THEN <<>>
    ELSE <<Head(args).meta>> \o PerMetaOfAll(Tail(args))

\* mod.rs 707-714: per_meta.push(v.take_per_meta()) in the branch of the
\* arguments that are not fixed
RECURSIVE PerMeta(_)
PerMeta(args) ==
    IF args = <<>> THEN <<>>
    ELSE IF row_count(Head(args)) = 1 THEN PerMeta(Tail(args))
    ELSE <<Head(args).meta>> \o PerMeta(Tail(args))

\* The combination of two metadata: a label that both carry cancels
Xor(x, y) == (x \ y) \cup (y \ x)

\* PersistentMeta::xor_all
RECURSIVE xor_all(_)
xor_all(metas) ==
    IF metas = <<>> THEN {} ELSE Xor(Head(metas), xor_all(Tail(metas)))

\* mod.rs 698-730
FixedRowsData(args, outputs) ==
    [tag |-> "Ok",
     rows |-> [i \in DOMAIN args |-> FixedRow(args[i], is_empty(args, outputs))],
     row_count |-> FinalRowCount(args, outputs),
     is_empty |-> is_empty(args, outputs),
     all_scalar |-> \A i \in DOMAIN args : rank(args[i]) = 0,
     per_meta |-> xor_all(PerMeta(args))]

FixedRowsOf(eq, outputs) ==
    IF eq.tag = "Err" THEN eq ELSE FixedRowsData(eq.args, outputs)

\* mod.rs 663-731
fixed_rows(outputs, args, fill) ==
    FixedRowsOf(EqualizeRows(args, 1, 2, fill), outputs)

MaxArgs == 2
MaxRows == 4

\* The shapes of the arguments: a scalar, or a list of 0..MaxRows rows
RowShapes == {<<>>} \cup {<<n>> : n \in 0..MaxRows}

RowValues ==
    [shape : RowShapes, kind : {"num", "char"}, meta : {{}, {"label"}}]

InitFixedRows ==
    /\ pc = "start"
    /\ IdleSize /\ IdleFill /\ IdleFvs /\ IdleMs /\ IdleSwitch /\ IdleTry
    /\ IdleComb /\ IdleRest
    /\ \E n \in 0..MaxArgs : args_in \in [1..n -> RowValues]
    /\ outputs_in \in 0..1
    /\ env_fill \in {None, "num"}
    /\ fixed_rows_result = None

FixedRows ==
    /\ pc = "start"
    /\ fixed_rows_result' = fixed_rows(outputs_in, args_in, env_fill)
    /\ pc' = "done"
    /\ UNCHANGED <<args_in, outputs_in, env_fill>>
    /\ UNCHANGED <<vars_size, vars_fill, vars_fvs, vars_ms, vars_switch, vars_try,
                   vars_comb, vars_rest>>

NextFixedRows == FixedRows

SpecFixedRows == InitFixedRows /\ [][NextFixedRows]_vars

\* ---- claims about fixed_rows

RowArgs == DOMAIN args_in

\* Two row counts that differ, neither of them 1
CountsAtOdds(m, n) == m # n /\ m # 1 /\ n # 1

Fillable(i) == length_is_fillable(args_in[i], env_fill)

\* The row count of argument i when the pairwise fills are over: a fillable
\* argument has grown to the longest of the arguments
FilledRowCount(i) ==
    IF Fillable(i)
    THEN SetMax({row_count(args_in[j]) : j \in RowArgs})
    ELSE row_count(args_in[i])

\* A pair that cannot be aligned: j cannot grow, and i cannot grow or is the
\* longer of the two
MismatchedPair(i, j) ==
    /\ i # j
    /\ ~Fillable(j)
    /\ CountsAtOdds(row_count(args_in[i]), row_count(args_in[j]))
    /\ (~Fillable(i) \/ row_count(args_in[i]) > row_count(args_in[j]))

NonFixed == {i \in RowArgs : FilledRowCount(i) # 1}

\* The maximum row count among the arguments that are not fixed, 1 without any
MaxOfNonFixed ==
    IF NonFixed = {} THEN 1 ELSE SetMax({FilledRowCount(i) : i \in NonFixed})

\* The operation has an output and some argument has no row
MarkedEmpty == outputs_in > 0 /\ \E i \in RowArgs : FilledRowCount(i) = 0

\* C17 as it is worded: the row count returned is the maximum row count among
\* the arguments that are not fixed, or 1 without any, also when the operation
\* is marked empty
C17_Original ==
    (pc = "done" /\ fixed_rows_result.tag = "Ok") =>
        fixed_rows_result.row_count = MaxOfNonFixed

\* C17: the row count returned is the maximum row count among the arguments
\* that are not fixed, or 1 without any, when the operation is not marked
\* empty, and one more than that, the proxy row, when it is marked empty; it is
\* marked empty exactly when it has an output and some argument has no row
C17_RowCountReturned ==
    (pc = "done" /\ fixed_rows_result.tag = "Ok") =>
        /\ fixed_rows_result.is_empty = MarkedEmpty
        /\ ~MarkedEmpty => fixed_rows_result.row_count = MaxOfNonFixed
        /\ MarkedEmpty =>
              /\ fixed_rows_result.row_count = MaxOfNonFixed + 1
              /\ \A i \in NonFixed :
                    fixed_rows_result.rows[i].len = FilledRowCount(i) + 1

\* An empty operation: two arguments without rows and one output give the row
\* count 1
C17_Witness ==
    /\ pc = "done"
    /\ outputs_in = 1
    /\ Len(args_in) = 2
    /\ row_count(args_in[1]) = 0 /\ row_count(args_in[2]) = 0
    /\ fixed_rows_result.tag = "Ok"
    /\ fixed_rows_result.is_empty
    /\ fixed_rows_result.row_count = 1

\* The labels carried by an odd number of the arguments in `among`
OddLabels(among) ==
    {l \in UNION {args_in[i].meta : i \in RowArgs} :
        Cardinality({i \in among : l \in args_in[i].meta}) % 2 = 1}

\* The arguments in another order
Reordered(p) == [i \in RowArgs |-> args_in[p[i]]]

Orders == {p \in [RowArgs -> RowArgs] : \A i, j \in RowArgs : p[i] = p[j] => i = j}

\* The result does not depend on the order of the arguments
OrderIndependent ==
    \A p \in Orders :
        /\ fixed_rows(outputs_in, Reordered(p), env_fill).tag = "Ok"
        /\ fixed_rows(outputs_in, Reordered(p), env_fill).per_meta
              = fixed_rows_result.per_meta

\* C18 as it is worded: the metadata returned merges the metadata of all the
\* arguments, the fixed ones included
C18_Original ==
    (pc = "done" /\ fixed_rows_result.tag = "Ok") =>
        fixed_rows_result.per_meta = OddLabels(RowArgs)

\* C18: the metadata returned is the XOR-merge of the metadata of the
\* arguments that are not fixed (the metadata of a fixed argument stays with
\* its value), and it does not depend on the order of the arguments
C18_MergedMetadata ==
    (pc = "done" /\ fixed_rows_result.tag = "Ok") =>
        /\ fixed_rows_result.per_meta = OddLabels(NonFixed)
        /\ \A i \in RowArgs \ NonFixed :
              fixed_rows_result.rows[i].value.meta = args_in[i].meta
        /\ OrderIndependent

\* A fixed argument and a row sequence that carry the same label: the label
\* is returned, not cancelled
C18_Witness ==
    /\ pc = "done"
    /\ Len(args_in) = 2
    /\ row_count(args_in[1]) = 1 /\ args_in[1].meta = {"label"}
    /\ row_count(args_in[2]) = 3 /\ args_in[2].meta = {"label"}
    /\ fixed_rows_result.tag = "Ok"
    /\ fixed_rows_result.rows[1].tag = "Err"
    /\ fixed_rows_result.per_meta = {"label"}

\* The row sequences returned, one for each argument that is not fixed
RowSequences ==
    {i \in RowArgs : fixed_rows_result.rows[i].tag = "Ok"}

\* C27 as it is worded: the empty flag is set exactly when there is an output
\* and some argument passed has no row, and every row sequence returned yields
\* as many items as the row count returned, the rows of its argument and then
\* one proxy row exactly when the flag is set
C27_Original ==
    (pc = "done" /\ fixed_rows_result.tag = "Ok") =>
        /\ fixed_rows_result.is_empty
              <=> (outputs_in > 0 /\ \E i \in RowArgs : row_count(args_in[i]) = 0)
        /\ \A i \in RowSequences :
              /\ fixed_rows_result.rows[i].len = fixed_rows_result.row_count
              /\ fixed_rows_result.rows[i].proxy = fixed_rows_result.is_empty
              /\ fixed_rows_result.rows[i].len
                    = row_count(args_in[i])
                        + (IF fixed_rows_result.is_empty THEN 1 ELSE 0)

\* C27: the empty flag is set exactly when there is an output and some
\* argument has no row when the pairwise length fills are over, and every row
\* sequence returned yields as many items as the row count returned: the rows
\* its argument has after the fills, and then one proxy row exactly when the
\* flag is set
C27_EmptyFlagAndRowItems ==
    (pc = "done" /\ fixed_rows_result.tag = "Ok") =>
        /\ fixed_rows_result.is_empty
              <=> (outputs_in > 0 /\ \E i \in RowArgs : FilledRowCount(i) = 0)
        /\ RowSequences = NonFixed
        /\ \A i \in RowSequences :
              /\ fixed_rows_result.rows[i].len = fixed_rows_result.row_count
              /\ fixed_rows_result.rows[i].proxy = fixed_rows_result.is_empty
              /\ fixed_rows_result.rows[i].len
                    = FilledRowCount(i)
                        + (IF fixed_rows_result.is_empty THEN 1 ELSE 0)

\* An argument without rows next to a fixed one, with an output: the row
\* sequence yields the proxy row alone and the row count returned is 1
C27_Witness ==
    /\ pc = "done"
    /\ outputs_in = 1
    /\ env_fill = None
    /\ Len(args_in) = 2
    /\ row_count(args_in[1]) = 0 /\ args_in[2].shape = <<1>>
    /\ fixed_rows_result.tag = "Ok"
    /\ fixed_rows_result.is_empty
    /\ fixed_rows_result.rows[1] = [tag |-> "Ok", len |-> 1, proxy |-> TRUE]
    /\ fixed_rows_result.rows[2].tag = "Err"
    /\ fixed_rows_result.row_count = 1

(***************************************************************************)
(* f64.  The counting functions compute in double precision, so a positive *)
(* finite double is the pair of its 53-bit significand m (a natural number *)
(* with 2^52 <= m < 2^53, as limbs) and its exponent e: the value m * 2^e. *)
(* Every operation rounds its exact result to the nearest double, ties to  *)
(* the even significand, as IEEE 754 prescribes.                           *)
(***************************************************************************)

\* f64::MANTISSA_DIGITS
MantissaDigits == 53

BigOdd(x) == x # <<>> /\ x[1] % 2 = 1

\* The number of bits of a natural number
BitLen(x) ==
    IF x = <<>> THEN 0
    ELSE LimbBits * (Len(x) - 1)
         + (CHOOSE b \in 1..LimbBits : 2 ^ (b - 1) <= x[Len(x)] /\ x[Len(x)] < 2 ^ b)

\* x divided by the limb d, with the remainder
RECURSIVE DivLimb(_, _)
DivLimbStep(x, d, hi) ==
    [q |-> <<(hi.r * Base + Head(x)) \div d>> \o hi.q,
     r |-> (hi.r * Base + Head(x)) % d]

DivLimb(x, d) ==
    IF x = <<>> THEN [q |-> <<>>, r |-> 0]
    ELSE DivLimbStep(x, d, DivLimb(Tail(x), d))

\* x shifted right by r bits: the quotient q and the bits shifted out, rem
Shifted(low, d) == [q |-> Norm(d.q), rem |-> Norm(low \o <<d.r>>)]

ShiftRight(x, r) ==
    Shifted(SubSeq(x, 1, Min(r \div LimbBits, Len(x))),
            DivLimb(SubSeq(x, Min(r \div LimbBits, Len(x)) + 1, Len(x)),
                    2 ^ (r % LimbBits)))

\* The first of the r bits shifted out is set
Guard(s, r) == r > 0 /\ ~BigGreater(BigPow2(r - 1), s.rem)

\* A bit behind the first of the r bits shifted out is set
Sticky(s, r) ==
    r > 0 /\ s.rem # <<>> /\ s.rem # BigPow2(r - 1)

RoundedUp(x, e) ==
    IF BitLen(BigAdd(x, <<1>>)) > MantissaDigits
    THEN [m |-> ShiftRight(BigAdd(x, <<1>>), 1).q, e |-> e + 1]
    ELSE [m |-> BigAdd(x, <<1>>), e |-> e]

\* Round to nearest, ties to the even significand
Nearest(s, r, e, sticky) ==
    IF Guard(s, r) /\ (sticky \/ Sticky(s, r) \/ BigOdd(s.q))
    THEN RoundedUp(s.q, e + r)
    ELSE [m |-> s.q, e |-> e + r]

\* The double nearest to (x + f) * 2^e, where `sticky` tells whether the
\* fraction f < 1 is positive; x has more than MantissaDigits bits then
RoundF64(x, e, sticky) ==
    IF BitLen(x) > MantissaDigits
    THEN Nearest(ShiftRight(x, BitLen(x) - MantissaDigits),
                 BitLen(x) - MantissaDigits, e, sticky)
    ELSE [m |-> BigMul(x, BigPow2(MantissaDigits - BitLen(x))),
          e |-> e - (MantissaDigits - BitLen(x))]

\* `n as f64` for 0 < n < 2^53, which is exact
F64OfNat(n) == RoundF64(BigOfNat(n), 0, FALSE)

\* The bits kept behind the binary point by a division of two small numbers
DivisionBits == 64

F64Quotient(d, e) == RoundF64(Norm(d.q), e, d.r # 0)

\* a as f64 / b as f64 for 0 < a and 0 < b < 2^8
F64Div(a, b) ==
    F64Quotient(DivLimb(BigMul(BigOfNat(a), BigPow2(DivisionBits)), b), -DivisionBits)

\* x * y
F64Mul(x, y) == RoundF64(BigMul(x.m, y.m), x.e + y.e, FALSE)

RECURSIVE BigToNat(_)
BigToNat(x) == IF x = <<>> THEN 0 ELSE Head(x) + Base * BigToNat(Tail(x))

\* f64::round followed by `as usize`, for 1 <= x < 2^31: the nearest integer,
\* halves away from zero
RoundToNat(s, r) == BigToNat(s.q) + (IF Guard(s, r) THEN 1 ELSE 0)

f64_round(x) ==
    IF x.e >= 0 THEN BigToNat(BigMul(x.m, BigPow2(x.e)))
    ELSE RoundToNat(ShiftRight(x.m, -x.e), -x.e)

(***************************************************************************)
(* combinations and permutations (permute.rs)                              *)
(***************************************************************************)

OkValue(value) == [tag |-> "Ok", value |-> value]

\* permute.rs 222-224: (1..=last).map(|i| (calc_n + 1 - i) as f64 / i as f64)
\* .product(), which multiplies from 1.0 in the order of the range
RECURSIVE RatioProduct(_, _, _, _)
RatioProduct(calc_n, i, last, acc) ==
    IF i > last THEN acc
    ELSE RatioProduct(calc_n, i + 1, last, F64Mul(acc, F64Div(calc_n + 1 - i, i)))

\* permute.rs 213-225.  n + k - 1 is computed in usize: with n = k = 0 the
\* subtraction overflows, which panics in a build with overflow checks and
\* wraps to usize::MAX in a build without, where k.min(calc_n - k) is 0
combinations(n, k, same, overflow_checks) ==
    IF k > n THEN Error("CannotChooseCombinations", <<k, n>>, <<>>)
    ELSE IF same /\ n + k = 0
    THEN (IF overflow_checks THEN Panic ELSE OkValue(F64OfNat(1)))
    ELSE IF same
    THEN OkValue(RatioProduct(n + k - 1, 1, Min(k, n - 1), F64OfNat(1)))
    ELSE OkValue(RatioProduct(n, 1, Min(k, n - k), F64OfNat(1)))

\* permute.rs 235: (1..=n).rev().take(k).map(|i| i as f64).product()
RECURSIVE FactorProduct(_, _, _)
FactorProduct(i, count, acc) ==
    IF count = 0 \/ i < 1 THEN acc
    ELSE FactorProduct(i - 1, count - 1, F64Mul(acc, F64OfNat(i)))

\* permute.rs 227-236
permutations(n, k) ==
    IF k > n THEN Error("CannotGetPermutations", <<k, n>>, <<>>)
    ELSE OkValue(FactorProduct(n, k, F64OfNat(1)))

MaxN == 6

InitCount ==
    /\ pc = "start"
    /\ IdleSize /\ IdleFill /\ IdleFvs /\ IdleMs /\ IdleSwitch /\ IdleTry
    /\ IdleRows /\ IdleRest
    /\ n_in \in 0..MaxN
    /\ k_in \in 0..MaxN
    /\ same_in \in BOOLEAN
    /\ reverse_in = FALSE
    /\ combinations_result = None
    /\ permutations_result = None
    /\ choose_result = None

\* Value::choose with a number to choose from (permute.rs 197-199)
CountCombinations ==
    /\ pc = "start"
    /\ \E overflow_checks \in BOOLEAN :
          combinations_result' = combinations(n_in, k_in, same_in, overflow_checks)
    /\ pc' = "counted"
    /\ UNCHANGED <<n_in, k_in, same_in, reverse_in, permutations_result, choose_result>>
    /\ UNCHANGED <<vars_size, vars_fill, vars_fvs, vars_ms, vars_switch, vars_try,
                   vars_rows, vars_rest>>

\* Value::permute with a number to permute (permute.rs 206-208)
CountPermutations ==
    /\ pc = "counted"
    /\ permutations_result' = permutations(n_in, k_in)
    /\ pc' = "done"
    /\ UNCHANGED <<n_in, k_in, same_in, reverse_in, combinations_result, choose_result>>
    /\ UNCHANGED <<vars_size, vars_fill, vars_fvs, vars_ms, vars_switch, vars_try,
                   vars_rows, vars_rest>>

NextCount == CountCombinations \/ CountPermutations

SpecCount == InitCount /\ [][NextCount]_vars

\* ---- claims about combinations and permutations

\* The binomial coefficient by Pascal's rule; choosing nothing is one way
RECURSIVE Binomial(_, _)
Binomial(m, k) ==
    IF k = 0 THEN 1
    ELSE IF m <= 0 THEN 0
    ELSE Binomial(m - 1, k - 1) + Binomial(m - 1, k)

\* n * (n-1) * ... * (n-k+1)
RECURSIVE FallingFactorial(_, _)
FallingFactorial(n, k) ==
    IF k = 0 THEN 1 ELSE n * FallingFactorial(n - 1, k - 1)

CalcN == IF same_in THEN n_in + k_in - 1 ELSE n_in

\* C19: combinations fails whenever k > n and returns C(m, k) for every k <= n,
\* with m = n+k-1 with repetition and m = n without; permutations fails
\* whenever k > n and returns the falling factorial n!/(n-k)! otherwise
C19_Counts ==
    /\ pc \in {"counted", "done"} =>
          IF k_in > n_in THEN combinations_result.tag = "Err"
          ELSE combinations_result = OkValue(F64OfNat(Binomial(CalcN, k_in)))
    /\ pc = "done" =>
          IF k_in > n_in THEN permutations_result.tag = "Err"
          ELSE permutations_result = OkValue(F64OfNat(FallingFactorial(n_in, k_in)))

\* C28: with repetition, combinations computes n+k-1 and its difference to k
\* without an unsigned underflow for every k <= n, so that no build panics,
\* and for n = 0 and k = 0 it returns 1
C28_NoUnderflow ==
    (pc \in {"counted", "done"} /\ same_in /\ k_in <= n_in) =>
        /\ combinations_result.tag = "Ok"
        /\ (n_in = 0 /\ k_in = 0) => combinations_result = OkValue(F64OfNat(1))

(***************************************************************************)
(* Array::choose (permute.rs 240-351).  The array chosen from is a list of *)
(* n scalar rows, row i holding the number i, so the data of the result is *)
(* the list of the row indices of its tuples.                              *)
(***************************************************************************)

\* The range lo..hi of Rust, which excludes hi
Range(lo, hi) == [x \in 1..(hi - lo) |-> lo + x - 1]

RECURSIVE Flatten(_)
Flatten(seqs) == IF seqs = <<>> THEN <<>> ELSE Head(seqs) \o Flatten(Tail(seqs))

\* self.data.clone(): the rows in their order
AllRows(n) == Range(0, n)

\* The rows but row i, in the order of `rows`
RowsBut(rows, i) == SelectSeq(rows, LAMBDA j : j # i)

\* permute.rs 262-280: for i in (0..n).rev(), the rows j != i, in descending
\* order of j when rev
ChooseAllButOne(n, rev) ==
    Flatten([x \in 1..n |->
                RowsBut(IF rev THEN Reverse(Range(0, n)) ELSE Range(0, n), n - x)])

\* permute.rs 288-293: the ranges of the two loops
Outer2(n, rev, same) ==
    IF ~rev /\ ~same THEN Range(0, n - 1)
    ELSE IF rev /\ ~same THEN Range(1, n)
    ELSE Range(0, n)

Inner2(i, n, rev, same) ==
    IF ~rev /\ ~same THEN Range(i + 1, n)
    ELSE IF rev /\ ~same THEN Range(0, i)
    ELSE IF ~rev /\ same THEN Range(i, n)
    ELSE Range(0, i + 1)

Choose2From(i, js) == Flatten([y \in DOMAIN js |-> <<i, js[y]>>])

Choose2Over(is, n, rev, same) ==
    Flatten([x \in DOMAIN is |-> Choose2From(is[x], Inner2(is[x], n, rev, same))])

\* permute.rs 282-295
Choose2(n, rev, same) == Choose2Over(Outer2(n, rev, same), n, rev, same)

\* permute.rs 304-317: the ranges of the three loops
Outer3(n, rev, same) ==
    IF ~rev /\ ~same THEN Range(0, n - 2)
    ELSE IF rev /\ ~same THEN Range(2, n)
    ELSE Range(0, n)

Middle3(i, n, rev, same) ==
    IF ~rev /\ ~same THEN Range(i + 1, n - 1)
    ELSE IF rev /\ ~same THEN Range(1, i)
    ELSE IF ~rev /\ same THEN Range(i, n)
    ELSE Range(0, i + 1)

Inner3(j, n, rev, same) ==
    IF ~rev /\ ~same THEN Range(j + 1, n)
    ELSE IF rev /\ ~same THEN Range(0, j)
    ELSE IF ~rev /\ same THEN Range(j, n)
    ELSE Range(0, j + 1)

Choose3From(i, j, ks) == Flatten([z \in DOMAIN ks |-> <<i, j, ks[z]>>])

Choose3Middle(i, js, n, rev, same) ==
    Flatten([y \in DOMAIN js |-> Choose3From(i, js[y], Inner3(js[y], n, rev, same))])

Choose3Over(is, n, rev, same) ==
    Flatten([x \in DOMAIN is |->
                Choose3Middle(is[x], Middle3(is[x], n, rev, same), n, rev, same)])

\* permute.rs 297-320
Choose3(n, rev, same) == Choose3Over(Outer3(n, rev, same), n, rev, same)

\* Array::new(shape, data)
Array(shape, data) == [tag |-> "Ok", shape |-> shape, data |-> data]

\* The generic loop at its entry: let mut indices = vec![0; k]
Loop(shape, k) ==
    [tag |-> "Loop", shape |-> shape, indices |-> [i \in 1..k |-> 0], data |-> <<>>]

\* permute.rs 259-349: match (k, n - k)
ChooseArms(shape, n, k, rev, same) ==
    IF k = 1 THEN Array(shape, AllRows(n))
    ELSE IF n - k = 0 /\ ~same THEN Array(shape, AllRows(n))
    ELSE IF n - k = 1 /\ ~same THEN Array(shape, ChooseAllButOne(n, rev))
    ELSE IF k = 2 THEN Array(shape, Choose2(n, rev, same))
    ELSE IF k = 3 THEN Array(shape, Choose3(n, rev, same))
    ELSE Loop(shape, k)

\* permute.rs 246-258: the count of the tuples becomes the leading dimension.
\* The counts of the model are finite and far below usize::MAX, and
\* validate_size accepts the shape
ChooseCounted(count, n, k, rev, same) ==
    IF count.tag # "Ok" THEN count
    ELSE ChooseArms(<<f64_round(count.value), k>>, n, k, rev, same)

\* permute.rs 240-258 and the arms without a loop
choose(n, k, rev, same, overflow_checks) ==
    ChooseCounted(combinations(n, k, same, overflow_checks), n, k, rev, same)

\* permute.rs 325-330: op
op(a, b, rev, same) ==
    IF ~rev /\ ~same THEN a < b
    ELSE IF rev /\ ~same THEN a > b
    ELSE IF ~rev /\ same THEN a <= b
    ELSE a >= b

\* permute.rs 333-335: indices.iter().skip(1).zip(&indices).all(|(a, b)| op(a, b))
Qualifies(indices, rev, same) ==
    \A i \in 1..(Len(indices) - 1) : op(indices[i + 1], indices[i], rev, same)

\* permute.rs 333-340
Emit(data, indices, rev, same) ==
    IF Qualifies(indices, rev, same) THEN data \o Reverse(indices) ELSE data

\* permute.rs 342-350: the increment of the indices, or the break
RECURSIVE Increment(_, _, _)
Increment(indices, i, n) ==
    IF i > Len(indices) THEN [break |-> TRUE, indices |-> indices]
    ELSE IF indices[i] + 1 = n
    THEN Increment([indices EXCEPT ![i] = 0], i + 1, n)
    ELSE [break |-> FALSE, indices |-> [indices EXCEPT ![i] = @ + 1]]

Continue(loop, data, inc) ==
    IF inc.break THEN Array(loop.shape, data)
    ELSE [loop EXCEPT !.indices = inc.indices, !.data = data]

\* permute.rs 331-350: one iteration of 'outer
outer(loop, n, rev, same, limit_reached) ==
    IF limit_reached THEN Error("ExecutionLimit", <<>>, <<>>)
    ELSE Continue(loop, Emit(loop.data, loop.indices, rev, same),
                  Increment(loop.indices, 1, n))

MaxK == 4

InitChoose ==
    /\ pc = "start"
    /\ IdleSize /\ IdleFill /\ IdleFvs /\ IdleMs /\ IdleSwitch /\ IdleTry
    /\ IdleRows /\ IdleRest
    /\ n_in \in 0..MaxN
    /\ k_in \in 0..MaxK
    /\ same_in \in BOOLEAN
    /\ reverse_in \in BOOLEAN
    /\ combinations_result = None
    /\ permutations_result = None
    /\ choose_result = None

\* Array::choose up to the match, and its arms without a loop
Choose ==
    /\ pc = "start"
    /\ \E overflow_checks \in BOOLEAN :
          /\ combinations_result' = combinations(n_in, k_in, same_in, overflow_checks)
          /\ choose_result' = choose(n_in, k_in, reverse_in, same_in, overflow_checks)
    /\ pc' = IF choose_result'.tag = "Loop" THEN "outer" ELSE "done"
    /\ UNCHANGED <<n_in, k_in, same_in, reverse_in, permutations_result>>
    /\ UNCHANGED <<vars_size, vars_fill, vars_fvs, vars_ms, vars_switch, vars_try,
                   vars_rows, vars_rest>>

\* One iteration of the generic loop
Outer ==
    /\ pc = "outer"
    /\ \E limit_reached \in BOOLEAN :
          choose_result' = outer(choose_result, n_in, reverse_in, same_in, limit_reached)
    /\ pc' = IF choose_result'.tag = "Loop" THEN "outer" ELSE "done"
    /\ UNCHANGED <<n_in, k_in, same_in, reverse_in, combinations_result,
                   permutations_result>>
    /\ UNCHANGED <<vars_size, vars_fill, vars_fvs, vars_ms, vars_switch, vars_try,
                   vars_rows, vars_rest>>

NextChoose == Choose \/ Outer

SpecChoose == InitChoose /\ [][NextChoose]_vars

\* ---- claims about Array::choose

\* The relation of the variant between adjacent entries of a tuple
Related(a, b) ==
    IF ~reverse_in /\ ~same_in THEN a < b
    ELSE IF ~reverse_in /\ same_in THEN a <= b
    ELSE IF reverse_in /\ ~same_in THEN a > b
    ELSE a >= b

\* The k-tuples of row indices the variant asks for
QualifyingTuples ==
    {t \in [1..k_in -> 0..(n_in - 1)] :
        \A i \in 1..(k_in - 1) : Related(t[i], t[i + 1])}

\* The j-th tuple of the output
TupleAt(j) == SubSeq(choose_result.data, (j - 1) * k_in + 1, j * k_in)

LexLess(s, t) ==
    \E i \in 1..Len(s) :
        /\ \A m \in 1..(i - 1) : s[m] = t[m]
        /\ s[i] < t[i]

\* C20: for every n >= k >= 0 and each of the four variants the output of
\* Array::choose lists exactly the k-tuples of row indices whose adjacent
\* entries are in the variant's relation, each once and in lexicographic
\* order, and their number, the leading dimension, is C(m, k)
C20_ChooseTuples ==
    (pc = "done" /\ k_in <= n_in /\ choose_result.tag = "Ok") =>
        /\ choose_result.shape = <<Cardinality(QualifyingTuples), k_in>>
        /\ Len(choose_result.data) = choose_result.shape[1] * k_in
        /\ {TupleAt(j) : j \in 1..choose_result.shape[1]} = QualifyingTuples
        /\ \A j \in 1..(choose_result.shape[1] - 1) : LexLess(TupleAt(j), TupleAt(j + 1))
        /\ choose_result.shape[1] = Binomial(CalcN, k_in)


\* ---- a further claim about fill_array_shape

\* C24 as stated: fill_array_shape returns success only if the shape of the
\* array, as it is left, prefix-matches the target shape, and it returns a
\* failure whenever the shape it leaves does not prefix-match the target; for
\* every array shape, target shape, fill availability and fixed-expansion flag.
C24_Original ==
    pc = "done" =>
        /\ fill_result.tag = "Ok" => PrefixMatch(arr.shape, target)
        /\ ~PrefixMatch(arr.shape, target) => fill_result.tag = "Err"

\* C24 as amended: success is returned only if the shape that is left
\* prefix-matches the target; when it does not, a failure is returned by
\* every context that can build an error, and the unit context, whose
\* error() panics, panics.
C24_SuccessIffPrefixMatch ==
    pc = "done" =>
        /\ fill_result.tag = "Ok" => PrefixMatch(arr.shape, target)
        /\ ~PrefixMatch(arr.shape, target) =>
              fill_result.tag = (IF ctx.impl = "Unit" THEN "Panic" ELSE "Err")

\* C24 witness: the fixed-axis step has replaced the shape, no fill value is
\* there for the later steps, and the shape that is left does not match
C24_Witness ==
    /\ pc = "done"
    /\ arr_in.shape = <<1, 0>> /\ target = <<0, 1, 0>>
    /\ expand_fixed /\ ctx = NoFillCtx
    /\ arr.shape = <<0, 0>>
    /\ ~PrefixMatch(arr.shape, target)
    /\ fill_result.tag = "Err"

(***************************************************************************)
(* Array::permute (permute.rs 353-428).  The elements of the array are     *)
(* named by their position in self.data, 0, 1, ..., so that row r is the   *)
(* elements r * row_len, ..., r * row_len + row_len - 1.  The loops are    *)
(* run one iteration per step, their variables kept in permute_result.     *)
(***************************************************************************)
\* self.data
SelfData(shape) == [j \in 1..Prod(shape) |-> j - 1]

\* Array::row_len: the product of the dimensions after the first
row_len(shape) == Prod(Tail(shape))

\* &self.data[idx * row_len..][..row_len]
RowSlice(shape, idx) ==
    SubSeq(SelfData(shape), idx * row_len(shape) + 1, (idx + 1) * row_len(shape))

\* for &idx in &curr { data.extend_from_slice(...) }
ExtendRows(data, shape, curr) ==
    data \o Flatten([x \in DOMAIN curr |-> RowSlice(shape, curr[x])])

\* slice::swap(a, b), which panics when an index is out of bounds
SwapInBounds(s, a, b) == a < Len(s) /\ b < Len(s)
Swap(s, a, b) == [s EXCEPT ![a + 1] = s[b + 1], ![b + 1] = s[a + 1]]

\* permute.rs 379-383: for i in (start..n).rev() { next.swap(start, i); push }
PushSwaps(rest, start, curr, n, shape) ==
    rest \o [x \in 1..(n - start) |->
                [start |-> start + 1, curr |-> Swap(curr, start, n - x)]]

\* permute.rs 374-384: one iteration of `while let Some(..) = stack.pop()`
Pop(st, n, shape) ==
    LET top == st.stack[Len(st.stack)]
        rest == SubSeq(st.stack, 1, Len(st.stack) - 1)
    IN  IF top.start = n
        THEN [st EXCEPT !.stack = rest, !.data = @ \o top.curr]
        ELSE IF ~SwapInBounds(top.curr, top.start, n - 1) THEN Panic
        ELSE [st EXCEPT !.stack = PushSwaps(rest, top.start, top.curr, n, shape)]

\* permute.rs 373-374; the loop ends when the stack is empty
AfterPop(st) ==
    IF st.tag = "Stack" /\ st.stack = <<>> THEN Array(st.shape, st.data) ELSE st

\* permute.rs 390-395: the head of 'outer
OuterHead(st, shape) ==
    [st EXCEPT !.curr = st.indices,
               !.counts = [x \in DOMAIN st.counts |-> 0],
               !.data = ExtendRows(st.data, shape, st.indices),
               !.i = 0]

\* permute.rs 397-409: one iteration of `while i < k`
HeapStepNoSwap(st, shape) ==
    LET i == st.i
    IN  IF st.counts[i + 1] < i
        THEN [st EXCEPT !.data = ExtendRows(st.data, shape, st.curr),
                        !.counts[i + 1] = @ + 1,
                        !.i = 0]
        ELSE [st EXCEPT !.counts[i + 1] = 0, !.i = i + 1]

HeapStep(st, shape) ==
    LET i == st.i
    IN  IF st.counts[i + 1] < i
        THEN LET a == IF i % 2 = 0 THEN 0 ELSE st.counts[i + 1]
                 curr == Swap(st.curr, a, i)
             IN  [st EXCEPT !.curr = curr,
                            !.data = ExtendRows(st.data, shape, curr),
                            !.counts[i + 1] = @ + 1,
                            !.i = 0]
        ELSE [st EXCEPT !.counts[i + 1] = 0, !.i = i + 1]

\* permute.rs 412-423: the next indices, or the break
RECURSIVE NextIndices(_, _, _, _)
NextIndices(indices, i, n, k) ==
    IF i = 0 THEN [break |-> TRUE, indices |-> indices]
    ELSE LET j == i - 1
         IN  IF indices[j + 1] < n - k + j
             THEN [break |-> FALSE,
                   indices |-> [x \in 1..k |->
                                  IF x - 1 < j THEN indices[x]
                                  ELSE indices[j + 1] + 1 + (x - 1 - j)]]
             ELSE NextIndices(indices, j, n, k)

\* permute.rs 411-424
Advance(st, shape, next) ==
    IF next.break THEN Array(st.shape, st.data)
    ELSE OuterHead([st EXCEPT !.indices = next.indices], shape)

\* permute.rs 371-373 and 386-395: the loop that is entered
PermuteLoop(out_shape, shape, n, k) ==
    IF k = n
    THEN [tag |-> "Stack", shape |-> out_shape, data |-> <<>>,
          stack |-> <<[start |-> 0, curr |-> SelfData(shape)]>>]
    ELSE OuterHead([tag |-> "Heap", shape |-> out_shape, data |-> <<>>,
                    indices |-> Range(0, k), counts |-> [x \in 1..k |-> 0],
                    curr |-> Range(0, k), i |-> 0], shape)

\* permute.rs 359-368: the count becomes the leading dimension and k the
\* second.  The counts of the model are finite and far below usize::MAX, and
\* validate_size accepts the shape
PermuteCounted(count, shape, k) ==
    IF count.tag # "Ok" THEN count
    ELSE PermuteLoop(<<f64_round(count.value), k>> \o Tail(shape), shape, shape[1], k)

\* permute.rs 353-372
permute(shape, k) ==
    IF shape = <<>> THEN Error("CannotPermuteScalar", <<>>, <<>>)
    ELSE PermuteCounted(permutations(shape[1], k), shape, k)

MaxPermN == 4
MaxRowLen == 2

\* A scalar, a list, or a table with rows of MaxRowLen elements at most
PermuteShapes ==
    {<<>>} \cup {<<n>> : n \in 0..MaxPermN}
           \cup {<<n, c>> : n \in 0..MaxPermN, c \in 0..MaxRowLen}

InitPermute ==
    /\ pc = "start"
    /\ IdleSize /\ IdleFill /\ IdleFvs /\ IdleMs /\ IdleSwitch /\ IdleTry
    /\ IdleRows /\ IdleTuples /\ IdleDepth
    /\ n_in = 0
    /\ same_in = FALSE /\ reverse_in = FALSE
    /\ combinations_result = None
    /\ permutations_result = None
    /\ choose_result = None
    /\ shape_in \in PermuteShapes
    /\ k_in \in 0..(MaxPermN + 1)
    /\ permute_result = None

PermuteUnchanged ==
    /\ UNCHANGED <<shape_in, vars_size, vars_fill, vars_fvs, vars_ms, vars_switch,
                   vars_try, vars_rows, vars_comb, vars_tuples, vars_depth>>

PermutePc(st) ==
    IF st.tag = "Stack" THEN "stack" ELSE IF st.tag = "Heap" THEN "heap" ELSE "done"

\* Array::permute up to the loops
Permute ==
    /\ pc = "start"
    /\ permute_result' = AfterPop(permute(shape_in, k_in))
    /\ pc' = PermutePc(permute_result')
    /\ PermuteUnchanged

\* One iteration of the loop of k = n
PermutePop ==
    /\ pc = "stack"
    /\ permute_result' = AfterPop(Pop(permute_result, shape_in[1], shape_in))
    /\ pc' = PermutePc(permute_result')
    /\ PermuteUnchanged

\* One iteration of `while i < k`
PermuteHeap ==
    /\ pc = "heap"
    /\ permute_result.i < k_in
    /\ permute_result' = HeapStep(permute_result, shape_in)
    /\ pc' = "heap"
    /\ PermuteUnchanged

\* The end of 'outer: the next indices and the head of the next iteration
PermuteNext ==
    /\ pc = "heap"
    /\ permute_result.i >= k_in
    /\ permute_result' =
          Advance(permute_result, shape_in,
                  NextIndices(permute_result.indices, k_in, shape_in[1], k_in))
    /\ pc' = PermutePc(permute_result')
    /\ PermuteUnchanged

NextPermute == Permute \/ PermutePop \/ PermuteHeap \/ PermuteNext

SpecPermute == InitPermute /\ [][NextPermute]_vars

\* ---- claims about Array::permute

\* The ordered selections of k distinct rows out of n
Selections(n, k) ==
    {t \in [1..k -> 0..(n - 1)] : \A x, y \in 1..k : x # y => t[x] # t[y]}

\* The elements of the rows of a selection, one row after the other
RowsOf(t) ==
    Flatten([x \in DOMAIN t |->
               [c \in 1..Prod(Tail(shape_in)) |-> t[x] * Prod(Tail(shape_in)) + c - 1]])

\* The j-th entry of the output: `size` rows
EntryAt(j, size) ==
    SubSeq(permute_result.data, (j - 1) * size * Prod(Tail(shape_in)) + 1,
           j * size * Prod(Tail(shape_in)))

\* The entries of the output that are the rows of the selection t
EntriesOf(t) == {j \in 1..permute_result.shape[1] : EntryAt(j, Len(t)) = RowsOf(t)}

PermuteReturned == pc = "done" /\ permute_result.tag = "Ok"

SelectionsOnce ==
    /\ PermuteReturned
    /\ permute_result.shape = <<FallingFactorial(shape_in[1], k_in), k_in>> \o Tail(shape_in)
    /\ Len(permute_result.data) = Prod(permute_result.shape)
    /\ Prod(Tail(shape_in)) > 0 =>
          \A t \in Selections(shape_in[1], k_in) : Cardinality(EntriesOf(t)) = 1

RECURSIVE Factorial(_)
Factorial(m) == IF m = 0 THEN 1 ELSE m * Factorial(m - 1)

\* The indices read as a number of base n: it grows with every advance to
\* the next indices
RECURSIVE IndexNumber(_, _)
IndexNumber(indices, n) ==
    IF indices = <<>> THEN 0
    ELSE IndexNumber(SubSeq(indices, 1, Len(indices) - 1), n) * n + indices[Len(indices)]

\* The counts read as a number of mixed radix, the positions below i counted
\* as full: it grows by one with every swap and stays as it is when i grows
RECURSIVE SwapNumber(_, _)
SwapNumber(counts, i) ==
    IF counts = <<>> THEN 0
    ELSE SwapNumber(SubSeq(counts, 1, Len(counts) - 1), i)
            + (counts[Len(counts)] + (IF Len(counts) - 1 < i THEN Len(counts) - 1 ELSE 0))
                * Factorial(Len(counts) - 1)

\* The bound of the variant of the loop
VariantBound ==
    (shape_in[1] ^ k_in + 1) * 2 * Factorial(k_in) * (k_in + 1)

\* The variant of the loop of k < n: nothing before the loop, the bound after it
PermuteVariant ==
    IF pc = "start" THEN -1
    ELSE IF pc = "done" THEN VariantBound
    ELSE (IndexNumber(permute_result.indices, shape_in[1]) * 2 * Factorial(k_in)
            + SwapNumber(permute_result.counts, permute_result.i)) * (k_in + 1)
         + permute_result.i

PermuteCase == shape_in # <<>> /\ k_in < shape_in[1]

\* C21: for 0 <= k < n the loop of Array::permute comes to its end (every
\* step of it raises a variant that is bounded), and the output then has
\* n!/(n-k)! entries of k rows each, in which every ordered selection of k
\* distinct rows out of n appears exactly once (the rows of a selection are
\* told apart when they have an element); for 3 rows and k = 2 the entries
\* are the 6 ordered pairs.
C21_PermuteSelections ==
    [][PermuteCase =>
          /\ PermuteVariant < PermuteVariant'
          /\ PermuteVariant' <= VariantBound
          /\ pc' = "done" => SelectionsOnce']_vars

C21_Witness ==
    /\ pc = "done"
    /\ shape_in = <<3>> /\ k_in = 2
    /\ permute_result = Array(<<6, 2>>, <<0, 1, 1, 0, 0, 2, 2, 0, 1, 2, 2, 1>>)

\* C22: for k = n Array::permute returns n! entries, each of them the n rows
\* of the input, every row with its elements as they were (whatever the
\* length of a row), and every ordering of the n rows appears exactly once.
C22_PermuteOrderings ==
    (pc = "done" /\ shape_in # <<>> /\ k_in = shape_in[1]) => SelectionsOnce

(***************************************************************************)
(* tuple2's generic arm, `inner` (permute.rs 126-180), for a tuple size    *)
(* k >= 3 and a function f that is none of the primitives of the fast      *)
(* path.  The rows are named as in Array::permute.  One iteration of       *)
(* 'outer is one step; tuples_result holds the variables of the loop, the  *)
(* calls of f made so far and the candidates visited so far.               *)
(***************************************************************************)
\* env.call(f) on the stack [.., i, j] followed by pop and as_bool: the
\* boolean that f returns, or the failure of the call or of as_bool
CallPredicate(f, i, j) ==
    IF f = "lt" THEN OkValue(i < j)
    ELSE IF f = "le" THEN OkValue(i <= j)
    ELSE IF f = "ne" THEN OkValue(i # j)
    ELSE IF f = "fails_on_equal"
    THEN (IF i = j THEN Error("CallFailed", <<i, j>>, <<>>) ELSE OkValue(TRUE))
    ELSE \* "sum": the number i + j, a boolean only when it is 0 or 1
         IF i + j <= 1 THEN OkValue(i + j = 1) ELSE Error("NotBoolean", <<i + j>>, <<>>)

Predicates == {"lt", "le", "ne", "fails_on_equal", "sum"}

\* permute.rs 140-141: the pairs of entries of curr at positions ii < jj, in
\* the order of the two loops
PairsOf(curr) ==
    Flatten([ii \in 1..Len(curr) |->
               [x \in 1..(Len(curr) - ii) |-> <<curr[ii], curr[ii + x]>>]])

\* permute.rs 140-153: the calls of f from the pair at `at` on, up to the
\* first failure or the first pair that f rejects
RECURSIVE CallPairs(_, _, _, _)
CallPairs(f, pairs, at, made) ==
    IF at > Len(pairs) THEN [tag |-> "Ok", add_it |-> TRUE, made |-> made]
    ELSE LET r == CallPredicate(f, pairs[at][1], pairs[at][2])
         IN  IF r.tag # "Ok" THEN [tag |-> "Err", error |-> r, made |-> Append(made, pairs[at])]
             ELSE IF ~r.value
             THEN [tag |-> "Ok", add_it |-> FALSE, made |-> Append(made, pairs[at])]
             ELSE CallPairs(f, pairs, at + 1, Append(made, pairs[at]))

\* &arr.data[i * row_len..][..row_len] stays inside arr.data
SliceInBounds(shape, i) == (i + 1) * row_len(shape) <= Prod(shape)

\* permute.rs 155-160: the rows of curr are added
AddRows(loop, shape, add_it) ==
    IF ~add_it THEN loop
    ELSE IF \E x \in DOMAIN loop.curr : ~SliceInBounds(shape, loop.curr[x])
    THEN [loop EXCEPT !.tag = "Panic"]
    ELSE [loop EXCEPT !.data = ExtendRows(@, shape, loop.curr), !.count = @ + 1]

\* permute.rs 163: curr[i] == row_count - 1.  Without overflow checks the
\* difference of 0 rows wraps to usize::MAX, which no entry of curr reaches
AtLastRow(entry, n) == IF n = 0 THEN FALSE ELSE entry = n - 1

\* permute.rs 161-170: the increment of curr from position i down, or the break
RECURSIVE IncrementCurr(_, _, _)
IncrementCurr(curr, i, n) ==
    IF i = 0 THEN [break |-> TRUE, curr |-> curr]
    ELSE IF AtLastRow(curr[i], n)
    THEN IncrementCurr([curr EXCEPT ![i] = 0], i - 1, n)
    ELSE [break |-> FALSE, curr |-> [curr EXCEPT ![i] = @ + 1]]

\* permute.rs 161-176: the next candidate, or the array that is returned
NextCandidate(loop, shape, checked) ==
    IF loop.tag = "Panic" THEN loop
    ELSE IF shape[1] = 0 /\ checked THEN [loop EXCEPT !.tag = "Panic"]
    ELSE LET inc == IncrementCurr(loop.curr, Len(loop.curr), shape[1])
         IN  IF inc.break
             THEN [loop EXCEPT !.tag = "Ok",
                               !.shape = <<loop.count, Len(loop.curr)>> \o Tail(shape)]
             ELSE [loop EXCEPT !.curr = inc.curr]

\* permute.rs 137-171: one iteration of 'outer
inner_outer(loop, f, shape, checked) ==
    LET visit == [loop EXCEPT !.visited = Append(@, loop.curr)]
        called == CallPairs(f, PairsOf(loop.curr), 1, loop.made)
    IN  IF called.tag = "Err"
        THEN [visit EXCEPT !.tag = "Err", !.error = called.error, !.made = called.made]
        ELSE NextCandidate(AddRows([visit EXCEPT !.made = called.made], shape, called.add_it),
                           shape, checked)

\* permute.rs 132-136
inner(shape, k) ==
    [tag |-> "Loop", curr |-> [x \in 1..k |-> 0], data |-> <<>>, count |-> 0,
     shape |-> shape, error |-> None, made |-> <<>>, visited |-> <<>>]

MaxTupleN == 3
MaxTupleK == 3

\* Lists, and tables with rows of no and of two elements
TupleShapes ==
    {<<n>> : n \in 0..MaxTupleN} \cup {<<n, c>> : n \in 0..MaxTupleN, c \in {0, 2}}

InitTuples ==
    /\ pc = "start"
    /\ IdleSize /\ IdleFill /\ IdleFvs /\ IdleMs /\ IdleSwitch /\ IdleTry
    /\ IdleRows /\ IdleDepth
    /\ n_in = 0
    /\ same_in = FALSE /\ reverse_in = FALSE
    /\ combinations_result = None
    /\ permutations_result = None
    /\ choose_result = None
    /\ permute_result = None
    /\ shape_in \in TupleShapes
    /\ k_in \in 3..MaxTupleK
    /\ predicate_in \in Predicates
    /\ limit_exceeded \in BOOLEAN
    /\ checked_build \in BOOLEAN
    /\ tuples_result = None

TuplesUnchanged ==
    /\ UNCHANGED <<shape_in, permute_result, predicate_in, limit_exceeded, checked_build,
                   vars_size, vars_fill, vars_fvs, vars_ms, vars_switch,
                   vars_try, vars_rows, vars_comb, vars_depth>>

\* inner up to 'outer
Tuples ==
    /\ pc = "start"
    /\ tuples_result' = inner(shape_in, k_in)
    /\ pc' = "outer"
    /\ TuplesUnchanged

\* One iteration of 'outer.  In the build without overflow checks the loop
\* over an array without rows is followed as long as the entries of curr stay
\* below MaxTupleN
TuplesOuter ==
    /\ pc = "outer"
    /\ \A x \in DOMAIN tuples_result.curr : tuples_result.curr[x] <= MaxTupleN
    /\ tuples_result' = inner_outer(tuples_result, predicate_in, shape_in, checked_build)
    /\ pc' = IF tuples_result'.tag = "Loop" THEN "outer" ELSE "done"
    /\ TuplesUnchanged

NextTuples == Tuples \/ TuplesOuter

SpecTuples == InitTuples /\ [][NextTuples]_vars

\* ---- claims about tuple2's generic arm

\* C23: the enumeration of tuples of size k >= 3 checks the execution limit
\* once per step of 'outer: a step that is begun after the limit has been
\* passed ends the enumeration with the failure of the limit.
C23_LimitChecked ==
    [][(pc = "outer" /\ limit_exceeded) =>
          /\ pc' = "done"
          /\ tuples_result'.tag = "Err"
          /\ tuples_result'.error.kind = "ExecutionLimit"]_vars

\* f returns a boolean for every pair of row indices
PredicateTotal ==
    \A i, j \in 0..(shape_in[1] - 1) : CallPredicate(predicate_in, i, j).tag = "Ok"

\* The tuples of row indices that f holds for on every pair of positions p < q
AcceptedTuples ==
    {t \in [1..k_in -> 0..(shape_in[1] - 1)] :
        \A p, q \in 1..k_in : p < q => CallPredicate(predicate_in, t[p], t[q]).value}

\* The row indices of the j-th tuple of the output, read from its rows
OutputTuple(j) ==
    [x \in 1..k_in |->
        tuples_result.data[((j - 1) * k_in + x - 1) * Prod(Tail(shape_in)) + 1]
            \div Prod(Tail(shape_in))]

TuplesInOrder ==
    /\ \A j \in 1..tuples_result.count :
          /\ OutputTuple(j) \in AcceptedTuples
          /\ \A x \in 1..k_in :
                SubSeq(tuples_result.data,
                       ((j - 1) * k_in + x - 1) * Prod(Tail(shape_in)) + 1,
                       ((j - 1) * k_in + x) * Prod(Tail(shape_in)))
                  = RowsOf(<<OutputTuple(j)[x]>>)
    /\ \A j \in 1..(tuples_result.count - 1) : LexLess(OutputTuple(j), OutputTuple(j + 1))

\* C29: for k >= 3 and n >= 0 rows the enumeration ends and returns, in
\* lexicographic order, exactly the k-tuples of row indices below n that f
\* holds for on every pair of positions p < q; every candidate tuple over
\* [0, n) is visited exactly once, so that for n = 0 no candidate is visited,
\* f is never called and the output has no tuple.
C29_TuplesEnumerated ==
    (pc = "done" /\ PredicateTotal) =>
        /\ tuples_result.tag = "Ok"
        /\ tuples_result.shape = <<Cardinality(AcceptedTuples), k_in>> \o Tail(shape_in)
        /\ tuples_result.count = Cardinality(AcceptedTuples)
        /\ Len(tuples_result.data) = Prod(tuples_result.shape)
        /\ Prod(Tail(shape_in)) > 0 => TuplesInOrder
        /\ Len(tuples_result.visited) = shape_in[1] ^ k_in
        /\ \A x \in DOMAIN tuples_result.visited :
              /\ tuples_result.visited[x] \in [1..k_in -> 0..(shape_in[1] - 1)]
              /\ \A y \in DOMAIN tuples_result.visited :
                    x < y => LexLess(tuples_result.visited[x], tuples_result.visited[y])
        /\ shape_in[1] = 0 => tuples_result.made = <<>>

(***************************************************************************)
(* fill_array_shapes (mod.rs 378-430).  The result holds the two arrays as *)
(* they are left, the Result, and the invocations in the order they were   *)
(* made: the nesting level, the depths as passed, and the depths after the *)
(* clamp to the rank.                                                      *)
(***************************************************************************)
\* Array::rows: the rows of an array, a scalar being its own single row
rows(x) ==
    IF x.shape = <<>> THEN <<x>>
    ELSE [i \in 1..x.shape[1] |->
            [kind |-> x.kind, shape |-> Tail(x.shape),
             data |-> SubSeq(x.data, (i - 1) * Prod(Tail(x.shape)) + 1,
                             i * Prod(Tail(x.shape)))]]

\* Array::from_row_arrays_infallible on rows of one shape; no row gives the
\* empty list
from_row_arrays_infallible(rs, kind) ==
    IF rs = <<>> THEN [kind |-> kind, shape |-> <<0>>, data |-> <<>>]
    ELSE [kind |-> kind, shape |-> <<Len(rs)>> \o rs[1].shape, data |-> Concat(rs)]

\* mod.rs 395-408: the arm (0, 0)
BothDepthsZero(a, b, c, trace) ==
    LET ra == fill_array_shape(a, b.shape, TRUE, c, a.kind)
        rb == fill_array_shape(b, ra.arr.shape, TRUE, c, b.kind)
    IN  [a |-> ra.arr, b |-> rb.arr, trace |-> trace,
         res |-> IF ra.res.tag = "Panic" THEN ra.res
                 ELSE IF rb.res.tag = "Panic" THEN rb.res
                 ELSE IF shape_prefixes_match(ra.arr.shape, rb.arr.shape) THEN FillOk
                 ELSE IF ra.res.tag = "Err" THEN ra.res
                 ELSE IF rb.res.tag = "Err" THEN rb.res
                 ELSE ShapeMismatch(c, ra.arr.shape, rb.arr.shape, "")]

\* mod.rs 420: a_depth - 1 in usize.  Without overflow checks 0 - 1 wraps to
\* usize::MAX, for which a number above every rank stands
DepthLess1(depth) == IF depth = 0 THEN 2 ^ 30 ELSE depth - 1

RECURSIVE fill_array_shapes(_, _, _, _, _, _, _)
RECURSIVE FillRowPairs(_, _, _, _, _, _, _, _, _)

\* mod.rs 419-423: the loop over the pairs of rows from pair i on; `acc`
\* holds new_a_rows, new_b_rows and the invocations so far
FillRowPairs(a, b, i, a_depth, b_depth, c, checked, level, acc) ==
    IF i > Min(Len(rows(a)), Len(rows(b)))
    THEN [a |-> from_row_arrays_infallible(acc.new_a_rows, a.kind),
          b |-> from_row_arrays_infallible(acc.new_b_rows, b.kind),
          res |-> FillOk, trace |-> acc.trace]
    ELSE IF (a_depth = 0 \/ b_depth = 0) /\ checked
    THEN [a |-> a, b |-> b, res |-> Panic, trace |-> acc.trace]
    ELSE LET r == fill_array_shapes(rows(a)[i], rows(b)[i], DepthLess1(a_depth),
                                    DepthLess1(b_depth), c, checked, level + 1)
         IN  IF r.res.tag # "Ok"
             THEN [a |-> a, b |-> b, res |-> r.res, trace |-> acc.trace \o r.trace]
             ELSE FillRowPairs(a, b, i + 1, a_depth, b_depth, c, checked, level,
                               [new_a_rows |-> Append(acc.new_a_rows, r.a),
                                new_b_rows |-> Append(acc.new_b_rows, r.b),
                                trace |-> acc.trace \o r.trace])

\* mod.rs 410-427: the arm (_, _), the depths clamped
PositiveDepth(a, b, a_depth, b_depth, c, checked, level, trace) ==
    IF row_count(a) # row_count(b)
    THEN [a |-> a, b |-> b, res |-> ShapeMismatch(c, a.shape, b.shape, ""), trace |-> trace]
    ELSE IF shape_prefixes_match(SubSeq(a.shape, a_depth + 1, Len(a.shape)),
                                 SubSeq(b.shape, b_depth + 1, Len(b.shape)))
    THEN [a |-> a, b |-> b, res |-> FillOk, trace |-> trace]
    ELSE FillRowPairs(a, b, 1, a_depth, b_depth, c, checked, level,
                      [new_a_rows |-> <<>>, new_b_rows |-> <<>>, trace |-> trace])

\* mod.rs 378-430
fill_array_shapes(a, b, a_depth, b_depth, c, checked, level) ==
    LET invocation == [level |-> level, a_depth |-> a_depth, b_depth |-> b_depth,
                       a_clamped |-> Min(a_depth, rank(a)),
                       b_clamped |-> Min(b_depth, rank(b)),
                       a_shape |-> a.shape, b_shape |-> b.shape]
    IN  IF Min(a_depth, rank(a)) = 0 /\ Min(b_depth, rank(b)) = 0
        THEN BothDepthsZero(a, b, c, <<invocation>>)
        ELSE PositiveDepth(a, b, Min(a_depth, rank(a)), Min(b_depth, rank(b)),
                           c, checked, level, <<invocation>>)

\* Arrays of rank MaxRank at most, depths up to MaxRank
InitFillShapes ==
    /\ pc = "start"
    /\ IdleSize /\ IdleFvs /\ IdleMs /\ IdleSwitch /\ IdleTry /\ IdleRows /\ IdleComb
    /\ IdlePerm
    /\ expand_fixed = FALSE
    /\ arr_in = None /\ arr = None
    /\ target = <<>>
    /\ fill_result = None
    /\ predicate_in = None
    /\ limit_exceeded = FALSE
    /\ tuples_result = None
    /\ ctx \in {NoFillCtx, FillCtx({"Num"})}
    /\ checked_build \in BOOLEAN
    /\ fas_a_in \in {ArrayOf("Num", s) : s \in Shapes(MaxRank)}
    /\ fas_b_in \in {ArrayOf("Num", s) : s \in Shapes(MaxRank)}
    /\ a_depth_in \in 0..MaxRank
    /\ b_depth_in \in 0..MaxRank
    /\ fill_shapes_result = None

FillArrayShapes ==
    /\ pc = "start"
    /\ fill_shapes_result' =
          fill_array_shapes(fas_a_in, fas_b_in, a_depth_in, b_depth_in, ctx,
                            checked_build, 0)
    /\ pc' = "done"
    /\ UNCHANGED <<fas_a_in, fas_b_in, a_depth_in, b_depth_in, ctx, checked_build>>
    /\ UNCHANGED <<expand_fixed, arr_in, arr, target, fill_result, predicate_in,
                   limit_exceeded, tuples_result, vars_size, vars_fvs, vars_ms,
                   vars_switch, vars_try, vars_rows, vars_comb, vars_perm>>

NextFillShapes == FillArrayShapes

SpecFillShapes == InitFillShapes /\ [][NextFillShapes]_vars

\* ---- claims about fill_array_shapes

\* The invocation that made the x-th invocation: the last one before it on
\* the level above
Caller(trace, x) ==
    trace[SetMax({y \in 1..(x - 1) : trace[y].level = trace[x].level - 1})]

\* C25: every recursive call of fill_array_shapes is made with both depths
\* exactly one less than the clamped depths of its caller, no depth is taken
\* below 0 (also when exactly one clamped depth is 0 and the trailing shapes
\* differ), the nesting of the calls is bounded by the ranks of the arrays,
\* and at positive depth differing row counts give a fill-class error.
C25_DepthsDecrease ==
    pc = "done" =>
        /\ fill_shapes_result.res.tag # "Panic"
        /\ \A x \in DOMAIN fill_shapes_result.trace :
              LET invocation == fill_shapes_result.trace[x]
              IN  /\ invocation.level <= Max(rank(fas_a_in), rank(fas_b_in))
                  /\ invocation.level > 0 =>
                        /\ Caller(fill_shapes_result.trace, x).a_clamped >= 1
                        /\ Caller(fill_shapes_result.trace, x).b_clamped >= 1
                        /\ invocation.a_depth = Caller(fill_shapes_result.trace, x).a_clamped - 1
                        /\ invocation.b_depth = Caller(fill_shapes_result.trace, x).b_clamped - 1
                  /\ (/\ invocation.a_clamped + invocation.b_clamped > 0
                      /\ row_count([shape |-> invocation.a_shape])
                            # row_count([shape |-> invocation.b_shape])) =>
                        /\ fill_shapes_result.res.tag = "Err"
                        /\ fill_shapes_result.res.is_fill
=============================================================================
